---- MODULE Spec2Model ----
(***************************************************************************)
(* Release gating of jellewillekes/model-release-platform: the promotion   *)
(* policy (project/src/policy/release_policy.py), the promote CLI and      *)
(* apply_promotion (project/src/promote.py) and rollback_prod              *)
(* (project/src/rollback.py), run against a model registry that holds      *)
(* aliases and per-version tags; and the serving side: decide_routing and   *)
(* choose_canary_bucket (serving/router.py), request_id_middleware,        *)
(* predict, the health endpoints and the model cache with                  *)
(* _refresh_models_if_needed and _get_model (serving/app.py).              *)
(*                                                                         *)
(* A Python string is a sequence of chunks: a chunk is either the          *)
(* whitespace chunk SP or a word without whitespace, so "passed" is        *)
(* <<"passed">> and " passed " is <<SP, "passed", SP>>; str.strip() drops   *)
(* the leading and trailing SP chunks.  A tag mapping is a function whose   *)
(* domain is the set of keys present (dict.get(k, "") reads a default for   *)
(* an absent key).  Each registry call is one atomic step of the process    *)
(* that issues it.  A value of type str | None is a sequence of at most     *)
(* one string.  sha256 is a function fixed per payload: the digest of a     *)
(* payload is drawn when it is first hashed and kept in `sha`.              *)
(***************************************************************************)
EXTENDS Integers, Sequences, FiniteSets, TLC

VARIABLES aliases, tags, pc, args, loc, decision, calls, reads, outcome, budget, faults, hist,
          prodlog, route, sha, bctx, http, cache, clock, th, loads

vars == <<aliases, tags, pc, args, loc, decision, calls, reads, outcome, budget, faults, hist,
          prodlog, route, sha, bctx, http, cache, clock, th, loads>>

\* the state of the release tooling
tooling == <<aliases, tags, pc, args, loc, decision, calls, reads, outcome, budget, faults,
             hist, prodlog>>

\* the model cache of the serving process, the clock and the requests it serves
caching == <<cache, clock, th, loads>>

\* the state of the serving side
serving == <<route, sha, bctx, http, caching>>

----------------------------------------------------------------------------
(* Bounds *)

MaxVersion == 2

MaxRuns == 2

MaxFaults == 1

\* entry-point invocations in a run of the promotion and rollback history
MaxHistory == 6

\* how far outside 0..99 and 0..100 the buckets and percentages handed to
\* decide_routing go
MaxBeyond == 2

\* settings.model_cache_ttl_sec, in ticks of the clock
ModelCacheTtl == 2

\* ticks of the clock after the process started
MaxTicks == 2

\* requests the serving process takes one after the other
MaxRequests == 2

----------------------------------------------------------------------------
(* Constants of the program *)

TAG_GIT_SHA == "git_sha"
TAG_SOURCE_RUN_ID == "source_run_id"
TAG_GATE == "gate"
TAG_RELEASE_STATUS == "release_status"
TAG_PROMOTED_FROM_ALIAS == "promoted_from_alias"
TAG_PREVIOUS_PROD_VERSION == "previous_prod_version"
TAG_DATASET_FINGERPRINT == "dataset_fingerprint"
TAG_CONFIG_HASH == "config_hash"
TAG_TRAINING_RUN_ID == "training_run_id"

GATE_PASSED == "passed"
GATE_FAILED == "failed"
RELEASE_STATUS_PREVIOUS_PROD == "previous_prod"

ALIAS_CANDIDATE == "candidate"
ALIAS_PROD == "prod"
ALIAS_CHAMPION == "champion"

_REQUIRED_TAGS == <<TAG_DATASET_FINGERPRINT, TAG_GIT_SHA, TAG_CONFIG_HASH, TAG_TRAINING_RUN_ID>>

----------------------------------------------------------------------------
(* Strings *)

SP == " "

None == "None"

Text(word) == <<word>>

EmptyStr == <<>>

RECURSIVE LStrip(_)
LStrip(s) == IF s # <<>> /\ Head(s) = SP THEN LStrip(Tail(s)) ELSE s

RECURSIVE RStrip(_)
RStrip(s) == IF s # <<>> /\ s[Len(s)] = SP THEN RStrip(SubSeq(s, 1, Len(s) - 1)) ELSE s

Strip(s) == RStrip(LStrip(s))

\* dict.get(key, default)
Get(mapping, key, default) == IF key \in DOMAIN mapping THEN mapping[key] ELSE default

\* d[key] = value on a dict
Put(mapping, key, value) == [k \in DOMAIN mapping \cup {key} |-> IF k = key THEN value ELSE mapping[k]]

----------------------------------------------------------------------------
(* The registry: one registered model, its versions, aliases and tags *)

Versions == {ToString(i) : i \in 1..MaxVersion}

AliasNames == {ALIAS_CANDIDATE, ALIAS_PROD, ALIAS_CHAMPION}

Procs == {"p1", "p2"}

\* client.get_model_version_by_alias(model_name, alias).version, None when it raises
ResolveAlias(alias) == aliases[alias]

\* client.get_model_version(model_name, version).tags
VersionTags(version) == tags[version]

\* client.get_run(run_id) succeeds for the runs the tracking store holds
KnownRuns == {Text("run1")}

SetAliasCall(alias, version) ==
  [op |-> "set_registered_model_alias", alias |-> alias, version |-> version,
   key |-> None, value |-> EmptyStr]

SetTagCall(version, key, value) ==
  [op |-> "set_model_version_tag", alias |-> None, version |-> version,
   key |-> key, value |-> value]

\* the registry after a successful mutating call
AliasesAfter(al, call) ==
  IF call.op = "set_registered_model_alias"
  THEN [al EXCEPT ![call.alias] = call.version]
  ELSE al

TagsAfter(tg, call) ==
  IF call.op = "set_model_version_tag"
  THEN [tg EXCEPT ![call.version] = Put(@, call.key, call.value)]
  ELSE tg

RECURSIVE AliasesAfterAll(_, _)
AliasesAfterAll(al, cs) ==
  IF cs = <<>> THEN al ELSE AliasesAfterAll(AliasesAfter(al, Head(cs)), Tail(cs))

RECURSIVE TagsAfterAll(_, _)
TagsAfterAll(tg, cs) ==
  IF cs = <<>> THEN tg ELSE TagsAfterAll(TagsAfter(tg, Head(cs)), Tail(cs))

\* a mutating call on a version the registry does not hold raises
VersionExists(version) == version \in DOMAIN tags

\* what the client stub of the tests records for a call, and whether it raised
Logged(call, ok) == [call |-> call, ok |-> ok]

----------------------------------------------------------------------------
(* release_policy.py *)

Violation(code, details) == [code |-> code, details |-> details]

_missing_required_tags(t) ==
  SelectSeq(_REQUIRED_TAGS, LAMBDA k : Strip(Get(t, k, EmptyStr)) = EmptyStr)

MissingAliasErrors(from_alias) ==
  <<Violation("MISSING_ALIAS", [alias |-> from_alias])>>

RequiredTagsErrors(candidate_tags) ==
  LET missing == _missing_required_tags(candidate_tags)
  IN  IF missing # <<>>
      THEN <<Violation("MISSING_REQUIRED_TAGS", [missing |-> missing])>>
      ELSE <<>>

GateErrors(candidate_tags) ==
  LET gate_val == Strip(Get(candidate_tags, TAG_GATE, EmptyStr))
  IN  IF gate_val # Text(GATE_PASSED)
      THEN <<Violation("GATE_NOT_PASSED", [expected |-> Text(GATE_PASSED), actual |-> gate_val])>>
      ELSE <<>>

ReleaseStatusErrors(candidate_tags, from_alias) ==
  LET rs_val == Strip(Get(candidate_tags, TAG_RELEASE_STATUS, EmptyStr))
  IN  IF rs_val # Text(from_alias)
      THEN <<Violation("INVALID_RELEASE_STATUS", [expected |-> Text(from_alias), actual |-> rs_val])>>
      ELSE <<>>

NoopErrors(candidate_version, current_prod_version) ==
  IF current_prod_version # None /\ current_prod_version = candidate_version
  THEN <<Violation("NOOP_PROMOTION",
                   [candidate_version |-> candidate_version,
                    current_prod_version |-> current_prod_version])>>
  ELSE <<>>

PolicyErrors_FirstOnly(l, from_alias) ==
  LET all == RequiredTagsErrors(l.candidate_tags)
               \o GateErrors(l.candidate_tags)
               \o ReleaseStatusErrors(l.candidate_tags, from_alias)
               \o NoopErrors(l.candidate_version, l.current_prod_version)
  IN  IF all = <<>> THEN <<>> ELSE <<Head(all)>>

\* lines 132-178: the four checks, accumulated in source order
PolicyErrors(l, from_alias) ==
  RequiredTagsErrors(l.candidate_tags)
    \o GateErrors(l.candidate_tags)
    \o ReleaseStatusErrors(l.candidate_tags, from_alias)
    \o NoopErrors(l.candidate_version, l.current_prod_version)

HasSourceRunId(candidate_tags) ==
  Strip(Get(candidate_tags, TAG_SOURCE_RUN_ID, EmptyStr)) # EmptyStr

\* lines 180-201; l.run_found is the outcome of client.get_run
PolicyWarnings(l) ==
  IF ~HasSourceRunId(l.candidate_tags)
  THEN <<Violation("MISSING_SOURCE_RUN_ID", [tag |-> TAG_SOURCE_RUN_ID])>>
  ELSE IF ~l.run_found
       THEN <<Violation("SOURCE_RUN_ID_NOT_FOUND",
                        [run_id |-> Strip(Get(l.candidate_tags, TAG_SOURCE_RUN_ID, EmptyStr))])>>
       ELSE <<>>

PolicyContext(l, from_alias, to_alias) ==
  [from_alias |-> from_alias, to_alias |-> to_alias,
   candidate_version |-> l.candidate_version,
   current_prod_version |-> l.current_prod_version]

PolicyAllowed_CleanOnly(errors, warnings) == Len(errors) = 0 /\ Len(warnings) = 0

\* line 203
PolicyAllowed(errors, warnings) == Len(errors) = 0

PolicyDecision_NoEarlyReturn(l, from_alias, to_alias) ==
  LET errors == (IF l.candidate_version = None THEN MissingAliasErrors(from_alias) ELSE <<>>)
                  \o PolicyErrors(l, from_alias)
      warnings == PolicyWarnings(l)
  IN  [allowed |-> PolicyAllowed(errors, warnings), errors |-> errors,
       warnings |-> warnings, context |-> PolicyContext(l, from_alias, to_alias)]

\* the PolicyDecision built at lines 110-115 (alias missing) or 203-206
PolicyDecision(l, from_alias, to_alias) ==
  IF l.candidate_version = None
  THEN [allowed |-> FALSE, errors |-> MissingAliasErrors(from_alias), warnings |-> <<>>,
        context |-> PolicyContext(l, from_alias, to_alias)]
  ELSE LET errors == PolicyErrors(l, from_alias)
           warnings == PolicyWarnings(l)
       IN  [allowed |-> PolicyAllowed(errors, warnings), errors |-> errors,
            warnings |-> warnings, context |-> PolicyContext(l, from_alias, to_alias)]

PolicyMutations_TagsCandidate(l) ==
  IF l.candidate_version = None THEN <<>>
  ELSE <<SetTagCall(l.candidate_version, "policy_checked", Text("true"))>>

\* the mutating registry calls evaluate_promotion_policy issues: none (lines 82-87)
PolicyMutations(l) == <<>>

----------------------------------------------------------------------------
(* Processes: each runs one entry point at a time *)

NoArgs ==
  [entry |-> "none", from_alias |-> None, to_alias |-> None, dry_run |-> FALSE,
   candidate_version |-> None]

NoLocals ==
  [candidate_version |-> None, current_prod_version |-> None, candidate_tags |-> <<>>,
   run_found |-> FALSE, apply_version |-> None, apply_from |-> None,
   prev_prod_version |-> None, current_prod |-> None, prev |-> EmptyStr]

NoDecision ==
  [made |-> FALSE, allowed |-> FALSE, errors |-> <<>>, warnings |-> <<>>,
   context |-> PolicyContext(NoLocals, None, None)]

\* history, for stating the properties: the invocation before the current one, the
\* version it applied, the prod version it read first, how it ended and the
\* arguments it was given
NoHistory ==
  [entry |-> "none", version |-> None, prev_prod_version |-> None, outcome |-> "none",
   args |-> NoArgs]

Idle(p) == pc[p] \in {"idle", "done"} /\ budget[p] > 0

\* a fresh invocation: new locals, an empty call log
Begin(p, a, l, first) ==
  /\ Idle(p)
  /\ pc' = [pc EXCEPT ![p] = first]
  /\ args' = [args EXCEPT ![p] = a]
  /\ loc' = [loc EXCEPT ![p] = l]
  /\ decision' = [decision EXCEPT ![p] = NoDecision]
  /\ calls' = [calls EXCEPT ![p] = <<>>]
  /\ reads' = [reads EXCEPT ![p] = <<>>]
  /\ outcome' = [outcome EXCEPT ![p] = "running"]
  /\ budget' = [budget EXCEPT ![p] = @ - 1]
  /\ hist' = [hist EXCEPT ![p] =
       [entry |-> args[p].entry, version |-> loc[p].apply_version,
        prev_prod_version |-> loc[p].prev_prod_version, outcome |-> outcome[p],
        args |-> args[p]]]
  /\ UNCHANGED <<serving, prodlog, aliases, tags, faults>>

Goto(p, next) == pc' = [pc EXCEPT ![p] = next]

\* the entry point ends: it returns, raises SystemExit(code) or raises an error
End(p, how) ==
  /\ pc' = [pc EXCEPT ![p] = "done"]
  /\ outcome' = [outcome EXCEPT ![p] = how]

Read(p, what) == reads' = [reads EXCEPT ![p] = Append(@, what)]

----------------------------------------------------------------------------
(* evaluate_promotion_policy, release_policy.py lines 76-206 *)

\* a direct call of evaluate_promotion_policy(client, model_name, from_alias, to_alias)
EvaluateStart(p, from_alias, to_alias) ==
  Begin(p, [NoArgs EXCEPT !.entry = "evaluate", !.from_alias = from_alias,
                          !.to_alias = to_alias], NoLocals, "eval_from")

\* line 91
EvalResolveFrom(p) ==
  /\ pc[p] = "eval_from"
  /\ loc' = [loc EXCEPT ![p].candidate_version = ResolveAlias(args[p].from_alias)]
  /\ Read(p, "get_model_version_by_alias")
  /\ Goto(p, "eval_to")
  /\ UNCHANGED <<serving, prodlog, aliases, tags, args, decision, calls, outcome, budget, faults, hist>>

\* line 92, and the branch of line 102
EvalResolveTo(p) ==
  /\ pc[p] = "eval_to"
  /\ loc' = [loc EXCEPT ![p].current_prod_version = ResolveAlias(args[p].to_alias)]
  /\ Read(p, "get_model_version_by_alias")
  /\ Goto(p, IF loc[p].candidate_version = None THEN "eval_return" ELSE "eval_load")
  /\ UNCHANGED <<serving, prodlog, aliases, tags, args, decision, calls, outcome, budget, faults, hist>>

\* lines 118-119, and the branch of line 181
EvalLoadCandidate(p) ==
  /\ pc[p] = "eval_load"
  /\ LET t == VersionTags(loc[p].candidate_version)
     IN  /\ loc' = [loc EXCEPT ![p].candidate_tags = t]
         /\ Goto(p, IF HasSourceRunId(t) THEN "eval_get_run" ELSE "eval_return")
  /\ Read(p, "get_model_version")
  /\ UNCHANGED <<serving, prodlog, aliases, tags, args, decision, calls, outcome, budget, faults, hist>>

\* lines 191-194
EvalGetRun(p) ==
  /\ pc[p] = "eval_get_run"
  /\ loc' = [loc EXCEPT ![p].run_found =
               Strip(Get(loc[p].candidate_tags, TAG_SOURCE_RUN_ID, EmptyStr)) \in KnownRuns]
  /\ Read(p, "get_run")
  /\ Goto(p, "eval_return")
  /\ UNCHANGED <<serving, prodlog, aliases, tags, args, decision, calls, outcome, budget, faults, hist>>

\* the return of lines 110-115 or 203-206
EvalReturn(p) ==
  /\ pc[p] = "eval_return"
  /\ LET d == PolicyDecision(loc[p], args[p].from_alias, args[p].to_alias)
         m == PolicyMutations(loc[p])
     IN  /\ decision' = [decision EXCEPT ![p] =
                [made |-> TRUE, allowed |-> d.allowed, errors |-> d.errors,
                 warnings |-> d.warnings, context |-> d.context]]
         /\ aliases' = AliasesAfterAll(aliases, m)
         /\ tags' = TagsAfterAll(tags, m)
         /\ calls' = [calls EXCEPT ![p] = @ \o [i \in 1..Len(m) |-> Logged(m[i], TRUE)]]
  /\ IF args[p].entry = "evaluate"
     THEN End(p, "returned")
     ELSE Goto(p, "main_decided") /\ UNCHANGED outcome
  /\ UNCHANGED <<serving, prodlog, args, loc, reads, budget, faults, hist>>

----------------------------------------------------------------------------
(* A mutating registry call, and how it may fail *)

\* history, for stating the properties: the versions the prod alias was repointed
\* to and by which entry point, oldest first; a promotion keeps the two entries
\* before it and drops the older ones
LastTwo(log) == IF Len(log) <= 2 THEN log ELSE SubSeq(log, Len(log) - 1, Len(log))

ProdLogAfter(log, entry, call) ==
  IF call.op = "set_registered_model_alias" /\ call.alias = ALIAS_PROD
  THEN IF entry = "rollback"
       THEN Append(log, [by |-> entry, version |-> call.version])
       ELSE Append(LastTwo(log), [by |-> entry, version |-> call.version])
  ELSE log

\* the call succeeds, or raises: always on a version the registry does not hold,
\* and at any call when the registry fails (at most MaxFaults times in a run of
\* the model)
CallOutcomes(call) ==
  IF ~VersionExists(call.version) THEN {FALSE}
  ELSE IF faults < MaxFaults THEN {TRUE, FALSE} ELSE {TRUE}

\* the caller moves on to its next call, or returns after its last one
Continue(p, next) ==
  IF next = "done" THEN End(p, "returned") ELSE Goto(p, next) /\ UNCHANGED outcome

\* where a raising call leaves the caller: an exception no handler catches
\* ends the entry point
Raised(p, next, swallowed) ==
  IF swallowed THEN Continue(p, next) ELSE End(p, "MlflowException")

\* one mutating call of process p: on success the registry changes and p moves on
\* to `next` (returning when `next` is "done"); on failure the registry is left as
\* it is and the exception propagates unless the call site catches it (`swallowed`)
Issue(p, call, next, swallowed) ==
  \E ok \in CallOutcomes(call) :
    /\ calls' = [calls EXCEPT ![p] = Append(@, Logged(call, ok))]
    /\ aliases' = IF ok THEN AliasesAfter(aliases, call) ELSE aliases
    /\ tags' = IF ok THEN TagsAfter(tags, call) ELSE tags
    /\ faults' = IF ok \/ ~VersionExists(call.version) THEN faults ELSE faults + 1
    /\ prodlog' = IF ok THEN ProdLogAfter(prodlog, args[p].entry, call) ELSE prodlog
    /\ IF ok THEN Continue(p, next) ELSE Raised(p, next, swallowed)
    /\ UNCHANGED <<serving, args, loc, decision, reads, budget, hist>>

----------------------------------------------------------------------------
(* promote.py *)

\* promote [--from-alias A] [--to-alias B] [--dry-run], lines 122-133
PromoteStart(p, from_alias, to_alias, dry_run) ==
  Begin(p, [NoArgs EXCEPT !.entry = "promote", !.from_alias = from_alias,
                          !.to_alias = to_alias, !.dry_run = dry_run],
           NoLocals, "eval_from")

MainBranch_DryRunAfterDenial(dry_run, allowed) ==
  IF ~allowed THEN "SystemExit2" ELSE "apply_promotion"

MainBranch_AppliesWhenDenied(dry_run, allowed) ==
  IF dry_run
  THEN IF allowed THEN "SystemExit0" ELSE "SystemExit2"
  ELSE "apply_promotion"

\* lines 137-143: what main does with the decision
MainBranch(dry_run, allowed) ==
  IF dry_run
  THEN IF allowed THEN "SystemExit0" ELSE "SystemExit2"
  ELSE IF ~allowed THEN "SystemExit2" ELSE "apply_promotion"

\* lines 137-151
MainAfterDecision(p) ==
  /\ pc[p] = "main_decided"
  /\ LET branch == MainBranch(args[p].dry_run, decision[p].allowed)
     IN  IF branch # "apply_promotion"
          THEN End(p, branch) /\ UNCHANGED loc
          ELSE /\ Goto(p, "apply_read_prod")
               /\ loc' = [loc EXCEPT ![p].apply_version = decision[p].context.candidate_version,
                                     ![p].apply_from = args[p].from_alias]
               /\ UNCHANGED outcome
  /\ UNCHANGED <<serving, prodlog, aliases, tags, args, decision, calls, reads, budget, faults, hist>>

\* a direct call of apply_promotion(client, model_name, candidate_version, from_alias)
ApplyStart(p, candidate_version, from_alias) ==
  Begin(p, [NoArgs EXCEPT !.entry = "apply", !.from_alias = from_alias,
                          !.candidate_version = candidate_version],
           [NoLocals EXCEPT !.apply_version = candidate_version, !.apply_from = from_alias],
           "apply_read_prod")

\* the calls of apply_promotion, lines 55-88
ApplyProdAliasCall(l) == SetAliasCall(ALIAS_PROD, l.apply_version)

ApplyChampionAliasCall(l) == SetAliasCall(ALIAS_CHAMPION, l.apply_version)

ApplyStatusTagCall_FromAlias(l) ==
  SetTagCall(l.apply_version, TAG_RELEASE_STATUS, Text(l.apply_from))

ApplyStatusTagCall(l) == SetTagCall(l.apply_version, TAG_RELEASE_STATUS, Text(ALIAS_PROD))

ApplyFromTagCall(l) == SetTagCall(l.apply_version, TAG_PROMOTED_FROM_ALIAS, Text(l.apply_from))

ApplyPrevTagCall(l) ==
  SetTagCall(l.apply_version, TAG_PREVIOUS_PROD_VERSION, Text(l.prev_prod_version))

ApplyOldProdTagCall(l) ==
  SetTagCall(l.prev_prod_version, TAG_RELEASE_STATUS, Text(RELEASE_STATUS_PREVIOUS_PROD))

\* line 73
ApplyAfterFromTag(l) == IF l.prev_prod_version # None THEN "apply_tag_prev" ELSE "done"

ApplySwallows_WholeBlock(step) == step \in {"apply_tag_prev", "apply_tag_old"}

ApplySwallows_Nothing(step) == FALSE

\* the calls of apply_promotion inside a try/except, lines 82-95
ApplySwallows(step) == step = "apply_tag_old"

\* line 52, _try_get_prod_version
ApplyReadProd(p) ==
  /\ pc[p] = "apply_read_prod"
  /\ loc' = [loc EXCEPT ![p].prev_prod_version = ResolveAlias(ALIAS_PROD)]
  /\ Read(p, "get_model_version_by_alias")
  /\ Goto(p, "apply_set_prod")
  /\ UNCHANGED <<serving, prodlog, aliases, tags, args, decision, calls, outcome, budget, faults, hist>>

\* line 55
ApplySetProd(p) ==
  /\ pc[p] = "apply_set_prod"
  /\ Issue(p, ApplyProdAliasCall(loc[p]), "apply_set_champion", ApplySwallows(pc[p]))

\* line 56
ApplySetChampion(p) ==
  /\ pc[p] = "apply_set_champion"
  /\ Issue(p, ApplyChampionAliasCall(loc[p]), "apply_tag_status", ApplySwallows(pc[p]))

\* lines 59-64
ApplyTagStatus(p) ==
  /\ pc[p] = "apply_tag_status"
  /\ Issue(p, ApplyStatusTagCall(loc[p]), "apply_tag_from", ApplySwallows(pc[p]))

\* lines 65-70, and the branch of line 73
ApplyTagFrom(p) ==
  /\ pc[p] = "apply_tag_from"
  /\ Issue(p, ApplyFromTagCall(loc[p]), ApplyAfterFromTag(loc[p]), ApplySwallows(pc[p]))

\* lines 74-79
ApplyTagPrev(p) ==
  /\ pc[p] = "apply_tag_prev"
  /\ Issue(p, ApplyPrevTagCall(loc[p]), "apply_tag_old", ApplySwallows(pc[p]))

\* lines 82-95
ApplyTagOldProd(p) ==
  /\ pc[p] = "apply_tag_old"
  /\ Issue(p, ApplyOldProdTagCall(loc[p]), "done", ApplySwallows(pc[p]))

----------------------------------------------------------------------------
(* rollback.py *)

\* a string names a version when it is one word
Word(s) == IF Len(s) = 1 THEN s[1] ELSE "?"

\* rollback_prod(client, model_name)
RollbackStart(p) ==
  Begin(p, [NoArgs EXCEPT !.entry = "rollback"], NoLocals, "rb_read")

\* lines 26-34
RollbackReadProd(p) ==
  /\ pc[p] = "rb_read"
  /\ Read(p, "get_model_version_by_alias")
  /\ IF ResolveAlias(ALIAS_PROD) = None
     THEN End(p, "MlflowException") /\ UNCHANGED loc
     ELSE LET prev == Strip(Get(VersionTags(ResolveAlias(ALIAS_PROD)),
                                TAG_PREVIOUS_PROD_VERSION, EmptyStr))
          IN  /\ loc' = [loc EXCEPT ![p].current_prod = ResolveAlias(ALIAS_PROD),
                                    ![p].prev = prev]
              /\ IF prev = EmptyStr
                 THEN End(p, "RuntimeError")
                 ELSE Goto(p, "rb_set_alias") /\ UNCHANGED outcome
  /\ UNCHANGED <<serving, prodlog, aliases, tags, args, decision, calls, budget, faults, hist>>

RollbackAliasCall(l) == SetAliasCall(ALIAS_PROD, Word(l.prev))

RollbackTagCall_KeepsOlder(l) ==
  SetTagCall(Word(l.prev), TAG_PREVIOUS_PROD_VERSION,
             Get(tags[Word(l.prev)], TAG_PREVIOUS_PROD_VERSION, EmptyStr))

RollbackTagCall_TagsVacated(l) ==
  SetTagCall(l.current_prod, TAG_PREVIOUS_PROD_VERSION, l.prev)

RollbackTagCall(l) ==
  SetTagCall(Word(l.prev), TAG_PREVIOUS_PROD_VERSION, Text(l.current_prod))

\* rollback_prod catches nothing
RollbackSwallows(step) == FALSE

\* line 36
RollbackSetAlias(p) ==
  /\ pc[p] = "rb_set_alias"
  /\ Issue(p, RollbackAliasCall(loc[p]), "rb_tag_prev", RollbackSwallows(pc[p]))

\* lines 39-44
RollbackTagPrev(p) ==
  /\ pc[p] = "rb_tag_prev"
  /\ Issue(p, RollbackTagCall(loc[p]), "done", RollbackSwallows(pc[p]))

----------------------------------------------------------------------------
(* The process is killed between two registry calls of a mutation sequence *)

MutatingSteps ==
  {"apply_set_prod", "apply_set_champion", "apply_tag_status", "apply_tag_from",
   "apply_tag_prev", "apply_tag_old", "rb_set_alias", "rb_tag_prev"}

Crash(p) ==
  /\ pc[p] \in MutatingSteps
  /\ faults < MaxFaults
  /\ faults' = faults + 1
  /\ End(p, "crashed")
  /\ UNCHANGED <<serving, prodlog, aliases, tags, args, loc, decision, calls, reads, budget, hist>>

----------------------------------------------------------------------------
(* serving/router.py: decide_routing *)

MODE_PROD == "prod"
MODE_CANDIDATE == "candidate"
MODE_CANARY == "canary"
MODE_SHADOW == "shadow"

\* the largest bucket, line 120
MaxBucket == 99

\* the largest canary percentage, line 123
FullPct == 100

Max(a, b) == IF a >= b THEN a ELSE b

Min(a, b) == IF a <= b THEN a ELSE b

RoutingDecision(chosen, run_shadow) ==
  [raised |-> None, message |-> None, chosen |-> chosen, run_shadow |-> run_shadow]

ValueError(message) ==
  [raised |-> "ValueError", message |-> message, chosen |-> None, run_shadow |-> FALSE]

BUCKET_MESSAGE == "bucket must be in [0, 99]"

MODE_MESSAGE == "Unknown mode"

InRange_UpToFullPct(bucket) == 0 <= bucket /\ bucket <= FullPct

\* line 120
InRange(bucket) == 0 <= bucket /\ bucket <= MaxBucket

Clamp_ToMaxBucket(canary_pct) == Max(0, Min(MaxBucket, canary_pct))

\* line 123
Clamp(canary_pct) == Max(0, Min(FullPct, canary_pct))

CanaryChoice_Inclusive(bucket, canary_pct) ==
  IF bucket <= canary_pct THEN ALIAS_CANDIDATE ELSE ALIAS_PROD

\* lines 139-141
CanaryChoice(bucket, canary_pct) ==
  IF bucket < canary_pct THEN ALIAS_CANDIDATE ELSE ALIAS_PROD

\* lines 120-143
decide_routing(mode, canary_pct, bucket) ==
  IF ~InRange(bucket) THEN ValueError(BUCKET_MESSAGE)
  ELSE LET pct == Clamp(canary_pct)
       IN  IF mode = MODE_PROD THEN RoutingDecision(ALIAS_PROD, FALSE)
           ELSE IF mode = MODE_CANDIDATE THEN RoutingDecision(ALIAS_CANDIDATE, FALSE)
           ELSE IF mode = MODE_SHADOW THEN RoutingDecision(ALIAS_PROD, TRUE)
           ELSE IF mode = MODE_CANARY
                THEN RoutingDecision(CanaryChoice(bucket, pct), TRUE)
                ELSE ValueError(MODE_MESSAGE)

\* no call of decide_routing made
NoRoute ==
  [mode |-> None, canary_pct |-> 0, bucket |-> 0, called |-> FALSE,
   result |-> RoutingDecision(None, FALSE)]

\* a direct call of decide_routing(mode, canary_pct, bucket)
DecideRoutingCall ==
  /\ route.mode # None
  /\ ~route.called
  /\ route' = [route EXCEPT !.called = TRUE,
                            !.result = decide_routing(route.mode, route.canary_pct,
                                                      route.bucket)]
  /\ UNCHANGED <<tooling, caching, sha, bctx, http>>

----------------------------------------------------------------------------
(* serving/router.py: choose_canary_bucket *)

REQUEST_ID == "request_id"
PAYLOAD_HASH == "payload_hash"
RANDOM == "random"

\* a value json.dumps cannot serialize
OBJECT == "object()"

\* the keys of a row in sorted order
SortedKeys == <<"x", "y">>

\* a row is a dict: its <<key, value>> items in insertion order
Lookup(row, key) ==
  LET at == {i \in 1..Len(row) : row[i][1] = key}
  IN  IF at = {} THEN None ELSE row[CHOOSE i \in at : TRUE][2]

\* the items of a row with sort_keys=True
SortedItems(row) ==
  SelectSeq([i \in 1..Len(SortedKeys) |-> <<SortedKeys[i], Lookup(row, SortedKeys[i])>>],
            LAMBDA item : item[2] # None)

RECURSIVE Joined(_)
\* the texts of a list, with "," between them
Joined(texts) ==
  IF texts = <<>> THEN <<>>
  ELSE IF Len(texts) = 1 THEN texts[1]
  ELSE texts[1] \o <<",">> \o Joined(Tail(texts))

ItemText(item) == <<item[1], ":", item[2]>>

RowText(row) ==
  LET items == SortedItems(row)
  IN  <<"{">> \o Joined([i \in 1..Len(items) |-> ItemText(items[i])]) \o <<"}">>

\* json.dumps raises on a value it cannot serialize
Serializable(rows) ==
  \A i \in 1..Len(rows) : \A j \in 1..Len(rows[i]) : rows[i][j][2] # OBJECT

\* json.dumps(rows, sort_keys=True, separators=(",", ":")), line 76
json_dumps(rows) ==
  <<"[">> \o Joined([i \in 1..Len(rows) |-> RowText(rows[i])]) \o <<"]">>

\* str.encode("utf-8"): the bytes of each piece of the text
Utf8(text) == [i \in 1..Len(text) |-> [utf8 |-> text[i]]]

\* the digests sha256 may give, as integers
DigestSamples == {7, 99, 100, 12345}

\* int(hashlib.sha256(payload).hexdigest(), 16): a digest fixed per payload, the
\* same whenever the same bytes are hashed again
Digests(payload) == IF payload \in DOMAIN sha THEN {sha[payload]} ELSE DigestSamples

Hashed(payload, digest) ==
  sha' = [b \in DOMAIN sha \cup {payload} |-> IF b = payload THEN digest ELSE sha[b]]

\* lines 63-66, on the digest of the payload
stable_bucket_from_bytes(digest) == digest % (MaxBucket + 1)

\* a value of type str | None: no text, or one text
Nothing == <<>>

Some(text) == <<text>>

\* the truth value of ctx.request_id at line 88
Truthy(request_id) == request_id # Nothing /\ request_id[1] # EmptyStr

BucketContext(request_id, client_provided_request_id, rows) ==
  [request_id |-> request_id, client_provided_request_id |-> client_provided_request_id,
   rows |-> rows]

BucketDecision(bucket, seed_source) == [bucket |-> bucket, seed_source |-> seed_source]

Seed_PayloadFirst(ctx, token) ==
  IF Serializable(ctx.rows)
  THEN [seed_source |-> PAYLOAD_HASH, payload |-> Utf8(json_dumps(ctx.rows))]
  ELSE IF ctx.client_provided_request_id /\ Truthy(ctx.request_id)
  THEN [seed_source |-> REQUEST_ID, payload |-> Utf8(ctx.request_id[1])]
  ELSE [seed_source |-> RANDOM, payload |-> Utf8(token)]

Seed_GeneratedIdToo(ctx, token) ==
  IF Truthy(ctx.request_id)
  THEN [seed_source |-> REQUEST_ID, payload |-> Utf8(ctx.request_id[1])]
  ELSE IF Serializable(ctx.rows)
  THEN [seed_source |-> PAYLOAD_HASH, payload |-> Utf8(json_dumps(ctx.rows))]
  ELSE [seed_source |-> RANDOM, payload |-> Utf8(token)]

\* the bytes choose_canary_bucket hashes and where they come from, lines 88-105;
\* `token` is what secrets.token_hex(16) returns if it is called
Seed(ctx, token) ==
  IF ctx.client_provided_request_id /\ Truthy(ctx.request_id)
  THEN [seed_source |-> REQUEST_ID, payload |-> Utf8(ctx.request_id[1])]
  ELSE IF Serializable(ctx.rows)
  THEN [seed_source |-> PAYLOAD_HASH, payload |-> Utf8(json_dumps(ctx.rows))]
  ELSE [seed_source |-> RANDOM, payload |-> Utf8(token)]

\* the values secrets.token_hex(16) may return
Tokens == {Text("1f0e"), Text("a3c9")}

\* the contexts of two calls of choose_canary_bucket
Slots == {1, 2}

NoBucketDecision == BucketDecision(0 - 1, None)

NoBucketCall ==
  [ctx |-> BucketContext(Nothing, FALSE, <<>>), called |-> FALSE, decision |-> NoBucketDecision]

\* a direct call of choose_canary_bucket(ctx)
ChooseCanaryBucketCall(i) ==
  /\ ~bctx[i].called
  /\ \E token \in Tokens :
       LET seed == Seed(bctx[i].ctx, token)
       IN  \E digest \in Digests(seed.payload) :
             /\ Hashed(seed.payload, digest)
             /\ bctx' = [bctx EXCEPT ![i].called = TRUE,
                                     ![i].decision =
                                        BucketDecision(stable_bucket_from_bytes(digest),
                                                       seed.seed_source)]
  /\ UNCHANGED <<tooling, caching, route, http>>

\* nothing hashed and no call of choose_canary_bucket made
BucketOff ==
  /\ sha = <<>>
  /\ bctx = [i \in Slots |-> NoBucketCall]

----------------------------------------------------------------------------
(* serving/app.py: request_id_middleware and predict *)

\* the values uuid.uuid4().hex may return, line 79
Uuids == {Text("9f1c"), Text("0b7e")}

\* no request received
NoRequest ==
  [stage |-> "none", header |-> Nothing, mode |-> MODE_PROD, rows |-> <<>>, canary_pct |-> 0,
   request_id |-> Nothing, client_provided_request_id |-> FALSE,
   bucket |-> 0 - 1, bucket_seed_source |-> None, seed |-> <<>>,
   chosen |-> None, run_shadow |-> FALSE, y_primary |-> "none", y_shadow |-> "none",
   warned |-> FALSE, status_code |-> 0, proba |-> None, response_header |-> Nothing]

ClientProvided_Always(incoming) == TRUE

\* line 75: the header is there and not blank
ClientProvided(incoming) == incoming # Nothing /\ Strip(incoming[1]) # EmptyStr

\* lines 76 and 79: request.state.request_id
RequestId(incoming, generated) ==
  IF incoming # Nothing /\ Strip(incoming[1]) # EmptyStr
  THEN Some(Strip(incoming[1]))
  ELSE Some(generated)

\* request_id_middleware before call_next, lines 74-80
RequestIdMiddleware ==
  /\ http.stage = "received"
  /\ \E generated \in Uuids :
       http' = [http EXCEPT !.stage = "dispatched",
                            !.request_id = RequestId(http.header, generated),
                            !.client_provided_request_id = ClientProvided(http.header)]
  /\ UNCHANGED <<tooling, caching, route, sha, bctx>>

\* what obtaining a model handle may do: _refresh_models_if_needed and _get_model
\* return the handle, return None (only with required=False) or raise
HandleOutcomes(required) ==
  IF required THEN {"handle", "RuntimeError", "Exception"}
  ELSE {"handle", "None", "RuntimeError", "Exception"}

\* what model.predict(df) may do
InferOutcomes == {"ok", "RuntimeError", "Exception"}

ShadowSwallows_Nothing == FALSE

\* the try/except of lines 385-391 around the shadow inference
ShadowSwallows == TRUE

\* lines 426-436: the status of the HTTPException an error becomes
ErrorStatus(error) == IF error = "RuntimeError" THEN 503 ELSE 500

\* lines 355-424 after the routing decision: the primary handle and inference, the
\* shadow handle and inference, the response
Served(routing, handle, y_primary, shadow_handle, y_shadow) ==
  LET failed(status) ==
        [status_code |-> status, proba |-> None, y_primary |-> "none", y_shadow |-> "none",
         warned |-> FALSE]
      answered(shadow, warned) ==
        [status_code |-> 200, proba |-> routing.chosen, y_primary |-> "ok",
         y_shadow |-> shadow, warned |-> warned]
  IN  IF handle # "handle" THEN failed(ErrorStatus(handle))
      ELSE IF y_primary # "ok"
      THEN [failed(ErrorStatus(y_primary)) EXCEPT !.y_primary = y_primary]
      ELSE IF ~routing.run_shadow THEN answered("none", FALSE)
      ELSE IF shadow_handle = "None" THEN answered("none", FALSE)
      ELSE IF shadow_handle # "handle"
      THEN [failed(ErrorStatus(shadow_handle)) EXCEPT !.y_primary = "ok"]
      ELSE IF y_shadow = "ok" THEN answered("ok", FALSE)
      ELSE IF ShadowSwallows THEN answered(y_shadow, TRUE)
      ELSE [failed(ErrorStatus(y_shadow)) EXCEPT !.y_primary = "ok", !.y_shadow = y_shadow]

\* POST /predict, lines 313-444
Predict ==
  /\ http.stage = "dispatched"
  /\ \E token \in Tokens, handle \in HandleOutcomes(TRUE), y_primary \in InferOutcomes,
        shadow_handle \in HandleOutcomes(FALSE), y_shadow \in InferOutcomes :
       LET canary == http.mode = MODE_CANARY
           seed == Seed(BucketContext(http.request_id, http.client_provided_request_id,
                                      http.rows), token)
       IN  \E digest \in IF canary THEN Digests(seed.payload) ELSE {0} :
             LET bucket == IF canary THEN stable_bucket_from_bytes(digest) ELSE 0
                 routing == decide_routing(http.mode, http.canary_pct, bucket)
                 served == Served(routing, handle, y_primary, shadow_handle, y_shadow)
             IN  /\ IF canary THEN Hashed(seed.payload, digest) ELSE UNCHANGED sha
                 /\ http' = [http EXCEPT
                      !.stage = "answered",
                      !.bucket = IF canary THEN bucket ELSE 0 - 1,
                      !.bucket_seed_source = IF canary THEN seed.seed_source ELSE None,
                      !.seed = IF canary THEN seed.payload ELSE <<>>,
                      !.chosen = routing.chosen,
                      !.run_shadow = routing.run_shadow,
                      !.y_primary = served.y_primary,
                      !.y_shadow = served.y_shadow,
                      !.warned = served.warned,
                      !.status_code = served.status_code,
                      !.proba = served.proba]
  /\ UNCHANGED <<tooling, caching, route, bctx>>

\* request_id_middleware after call_next, lines 82-84
RequestIdEcho ==
  /\ http.stage = "answered"
  /\ http' = [http EXCEPT !.stage = "responded", !.response_header = http.request_id]
  /\ UNCHANGED <<tooling, caching, route, sha, bctx>>

\* no request on the way
AppOff == http = NoRequest

----------------------------------------------------------------------------
(* serving/app.py: the model cache, _refresh_models_if_needed and _get_model.   *)
(* A request runs on a thread of the serving process; each read or write of a   *)
(* cache global and each call of the registry is one atomic step of its thread. *)

Threads == {1, 2}

\* settings.canary_pct, the default
DEFAULT_CANARY_PCT == 10

\* a model handle: the result of one successful _load_model(settings, alias), which
\* resolves models:/<name>@<alias> when it is called
Handle(alias, version, load) == [alias |-> alias, version |-> version, load |-> load]

\* lines 38-42: the module globals at process start
EmptyCache ==
  [model_prod |-> Nothing, model_candidate |-> Nothing, prod_version |-> None,
   candidate_version |-> None, last_refresh_ts |-> 0]

HandleField_Prod(alias) == "model_prod"

\* the global that holds the handle of an alias, line 235
HandleField(alias) == IF alias = ALIAS_PROD THEN "model_prod" ELSE "model_candidate"

\* history, for stating the properties: per alias the number of _load_model calls
\* and the handles they returned
NoLoads == [a \in {ALIAS_PROD, ALIAS_CANDIDATE} |-> [attempts |-> 0, handles |-> {}]]

\* a thread that serves no request; `budget` requests to come.  For stating the
\* properties: `registry_prod` is the version the prod alias named when the request
\* arrived, `passed` whether the last refresh of the request passed the TTL gate,
\* `tried` the aliases _load_model was called for
NoCall(left) ==
  [op |-> "none", pc |-> "idle", budget |-> left, registry_prod |-> None, force |-> FALSE,
   passed |-> FALSE,
   load_candidate |-> FALSE, ret |-> "none", alias |-> None, required |-> FALSE,
   after |-> "none", now |-> 0, mode |-> None, bucket |-> 0 - 1, chosen |-> None,
   run_shadow |-> FALSE,
   model |-> Nothing, model_primary |-> Nothing, tried |-> <<>>,
   raised |-> None, detail |-> None, status_code |-> 0, proba |-> Nothing,
   y_shadow |-> "none",
   reg_ok |-> FALSE, prod_version |-> None, prod_model_loaded |-> FALSE]

\* the thread is free to take a request
Free(t) == th[t].pc \in {"idle", "done"} /\ th[t].budget > 0

\* a request arrives on the thread
Accept(t, op, first) ==
  [NoCall(th[t].budget - 1) EXCEPT !.op = op, !.pc = first,
                                   !.registry_prod = aliases[ALIAS_PROD]]

\* an exception leaves the request: predict maps it to a status (lines 426-436),
\* _prod_model_loadable turns it into "not ready" (lines 246-247, 269-274), health
\* lets it through to the server, which answers 500
Failed(r, error) ==
  [r EXCEPT !.pc = "done", !.raised = error,
            !.status_code = CASE r.op = "predict" -> ErrorStatus(error)
                              [] r.op = "readyz" -> 503
                              [] r.op = "health" -> 500
                              [] OTHER -> 0]

\* a call of _refresh_models_if_needed(settings, force=, load_candidate=) that
\* returns to `ret`
CallRefresh(r, force, load_candidate, ret) ==
  [r EXCEPT !.pc = "gate", !.force = force, !.load_candidate = load_candidate,
            !.ret = ret]

\* a call of _get_model(settings, alias, required) that returns to `after`: line 234
CallGetModel(r, alias, required, after) ==
  [CallRefresh(r, FALSE, alias = ALIAS_CANDIDATE, "get_read") EXCEPT
     !.alias = alias, !.required = required, !.after = after]

GatePasses_Always(force, now) == TRUE

\* line 213, negated
GatePasses(force, now) == force \/ (now - cache.last_refresh_ts) >= ModelCacheTtl

\* lines 212-214: now = time.time() and the TTL gate
RefreshGate(t) ==
  /\ th[t].pc = "gate"
  /\ LET passes == GatePasses(th[t].force, clock)
     IN  th' = [th EXCEPT ![t] = [@ EXCEPT !.now = clock,
                                           !.passed = passes,
                                           !.pc = IF passes THEN "prod_check" ELSE th[t].ret]]
  /\ UNCHANGED <<tooling, route, sha, bctx, http, cache, clock, loads>>

NeedsLoad_Always(model) == TRUE

\* `model_prod is None`, `model_candidate is None`: lines 216 and 219
NeedsLoad(model) == model = Nothing

\* line 216
RefreshCheckProd(t) ==
  /\ th[t].pc = "prod_check"
  /\ th' = [th EXCEPT ![t].pc = IF NeedsLoad(cache.model_prod) THEN "prod_load"
                                ELSE "candidate_check"]
  /\ UNCHANGED <<tooling, route, sha, bctx, http, cache, clock, loads>>

\* what _load_model(settings, alias) may do, lines 179-192: return a handle, raise
\* RuntimeError (mlflow is missing or broken) or raise the error of
\* pyfunc.load_model; an alias the registry does not resolve cannot be loaded
LoadOutcomes(alias) ==
  IF aliases[alias] = None THEN {"RuntimeError", "Exception"}
  ELSE {"ok", "RuntimeError", "Exception"}

\* lines 217 and 220: the call of _load_model and the assignment of its result
LoadModel(t, alias, next) ==
  \E result \in LoadOutcomes(alias) :
    LET serial == loads[alias].attempts + 1
        handle == Handle(alias, aliases[alias], serial)
        tried == [th[t] EXCEPT !.tried = Append(@, alias)]
    IN  /\ loads' = [loads EXCEPT ![alias] =
              [attempts |-> serial,
               handles |-> IF result = "ok" THEN @.handles \cup {handle} ELSE @.handles]]
        /\ IF result = "ok"
           THEN /\ cache' = [cache EXCEPT ![HandleField(alias)] = Some(handle)]
                /\ th' = [th EXCEPT ![t] = [tried EXCEPT !.pc = next]]
           ELSE /\ cache' = cache
                /\ th' = [th EXCEPT ![t] = Failed(tried, result)]

\* line 217
RefreshLoadProd(t) ==
  /\ th[t].pc = "prod_load"
  /\ LoadModel(t, ALIAS_PROD, "candidate_check")
  /\ UNCHANGED <<tooling, route, sha, bctx, http, clock>>

NeedsCandidate_Always(load_candidate) == TRUE

\* line 219, the first conjunct
NeedsCandidate(load_candidate) == load_candidate

\* line 219
RefreshCheckCandidate(t) ==
  /\ th[t].pc = "candidate_check"
  /\ th' = [th EXCEPT ![t].pc =
       IF NeedsCandidate(th[t].load_candidate) /\ NeedsLoad(cache.model_candidate)
       THEN "candidate_load" ELSE "prod_version"]
  /\ UNCHANGED <<tooling, route, sha, bctx, http, cache, clock, loads>>

\* line 220
RefreshLoadCandidate(t) ==
  /\ th[t].pc = "candidate_load"
  /\ LoadModel(t, ALIAS_CANDIDATE, "prod_version")
  /\ UNCHANGED <<tooling, route, sha, bctx, http, clock>>

\* what _get_version(settings, alias) may return, lines 168-176: the version the
\* alias resolves to, or None when the registry call raises
VersionOutcomes(alias) == {aliases[alias], None}

\* the left operand of `or`, lines 222 and 224: a cached version is kept and the
\* registry is not asked
Cached(version) == version # None

\* where the refresh goes on after the prod version
AfterProdVersion(t) == IF th[t].load_candidate THEN "candidate_version" ELSE "stamp"

\* line 222, the read of prod_version
RefreshProdVersion(t) ==
  /\ th[t].pc = "prod_version"
  /\ th' = [th EXCEPT ![t].pc = IF Cached(cache.prod_version) THEN AfterProdVersion(t)
                                ELSE "prod_version_get"]
  /\ UNCHANGED <<tooling, route, sha, bctx, http, cache, clock, loads>>

\* line 222, the call of _get_version and the assignment
RefreshGetProdVersion(t) ==
  /\ th[t].pc = "prod_version_get"
  /\ \E read \in VersionOutcomes(ALIAS_PROD) :
       cache' = [cache EXCEPT !.prod_version = read]
  /\ th' = [th EXCEPT ![t].pc = AfterProdVersion(t)]
  /\ UNCHANGED <<tooling, route, sha, bctx, http, clock, loads>>

\* lines 223-224, the read of candidate_version
RefreshCandidateVersion(t) ==
  /\ th[t].pc = "candidate_version"
  /\ th' = [th EXCEPT ![t].pc = IF Cached(cache.candidate_version) THEN "stamp"
                                ELSE "candidate_version_get"]
  /\ UNCHANGED <<tooling, route, sha, bctx, http, cache, clock, loads>>

\* lines 224-226, the call of _get_version and the assignment
RefreshGetCandidateVersion(t) ==
  /\ th[t].pc = "candidate_version_get"
  /\ \E read \in VersionOutcomes(ALIAS_CANDIDATE) :
       cache' = [cache EXCEPT !.candidate_version = read]
  /\ th' = [th EXCEPT ![t].pc = "stamp"]
  /\ UNCHANGED <<tooling, route, sha, bctx, http, clock, loads>>

\* line 228
RefreshStamp(t) ==
  /\ th[t].pc = "stamp"
  /\ cache' = [cache EXCEPT !.last_refresh_ts = th[t].now]
  /\ th' = [th EXCEPT ![t].pc = th[t].ret]
  /\ UNCHANGED <<tooling, route, sha, bctx, http, clock, loads>>

RefreshSteps(t) ==
  \/ RefreshGate(t)
  \/ RefreshCheckProd(t)
  \/ RefreshLoadProd(t)
  \/ RefreshCheckCandidate(t)
  \/ RefreshLoadCandidate(t)
  \/ RefreshProdVersion(t)
  \/ RefreshGetProdVersion(t)
  \/ RefreshCandidateVersion(t)
  \/ RefreshGetCandidateVersion(t)
  \/ RefreshStamp(t)

\* line 237: the message of the RuntimeError of _get_model
NOT_AVAILABLE == "model for alias is not available"

\* lines 235-238 of _get_model, after its refresh
GetModelRead(t) ==
  /\ th[t].pc = "get_read"
  /\ LET model == cache[HandleField(th[t].alias)]
     IN  th' = [th EXCEPT ![t] =
           IF th[t].required /\ model = Nothing
           THEN [Failed(@, "RuntimeError") EXCEPT !.detail = NOT_AVAILABLE]
           ELSE [@ EXCEPT !.model = model, !.pc = th[t].after]]
  /\ UNCHANGED <<tooling, route, sha, bctx, http, cache, clock, loads>>

\* a direct call of _refresh_models_if_needed
RefreshCall(t, force, load_candidate) ==
  /\ Free(t)
  /\ th' = [th EXCEPT ![t] = CallRefresh(Accept(t, "refresh", "gate"), force,
                                         load_candidate, "done")]
  /\ UNCHANGED <<tooling, route, sha, bctx, http, cache, clock, loads>>

\* a direct call of _get_model
GetModelCall(t, alias, required) ==
  /\ Free(t)
  /\ th' = [th EXCEPT ![t] = CallGetModel(Accept(t, "get", "gate"), alias, required,
                                          "done")]
  /\ UNCHANGED <<tooling, route, sha, bctx, http, cache, clock, loads>>

----------------------------------------------------------------------------
(* serving/app.py: the endpoints over the model cache *)

\* what _registry_resolves_prod_alias may return, lines 153-165: ok when the prod
\* alias resolves and the registry call does not raise
RegistryChecks == IF aliases[ALIAS_PROD] = None THEN {FALSE} ELSE {TRUE, FALSE}

\* the other alias, lines 358-361
ShadowAlias(primary_alias) ==
  IF primary_alias = ALIAS_PROD THEN ALIAS_CANDIDATE ELSE ALIAS_PROD

\* POST /predict?mode=, lines 329-367: the routing decision and the call of
\* _refresh_models_if_needed
PredictRoute(t, mode) ==
  /\ Free(t)
  /\ \E digest \in IF mode = MODE_CANARY THEN DigestSamples ELSE {0} :
       LET bucket == IF mode = MODE_CANARY THEN stable_bucket_from_bytes(digest) ELSE 0
           routing == decide_routing(mode, DEFAULT_CANARY_PCT, bucket)
           request == [Accept(t, "predict", "gate") EXCEPT
                         !.mode = mode, !.chosen = routing.chosen,
                         !.bucket = IF mode = MODE_CANARY THEN bucket ELSE 0 - 1,
                         !.run_shadow = routing.run_shadow]
       IN  th' = [th EXCEPT ![t] =
             CallRefresh(request, FALSE,
                         routing.chosen = ALIAS_CANDIDATE \/ routing.run_shadow, "primary")]
  /\ UNCHANGED <<tooling, route, sha, bctx, http, cache, clock, loads>>

\* line 370
PredictPrimary(t) ==
  /\ th[t].pc = "primary"
  /\ th' = [th EXCEPT ![t] = CallGetModel(@, th[t].chosen, TRUE, "infer")]
  /\ UNCHANGED <<tooling, route, sha, bctx, http, cache, clock, loads>>

Proba_LastModel(r) == r.model

\* lines 378-379 and 419: proba is y_primary_list, the output of model_primary
Proba(r) == r.model_primary

\* the request is answered 200, lines 416-424
Answered(r) == [r EXCEPT !.pc = "done", !.status_code = 200, !.proba = Proba(r)]

\* lines 371-383: the inference of the primary model and, when a shadow runs, the
\* call of _get_model for the other alias
PredictInfer(t) ==
  /\ th[t].pc = "infer"
  /\ \E y_primary \in InferOutcomes :
       LET r == [th[t] EXCEPT !.model_primary = th[t].model]
       IN  th' = [th EXCEPT ![t] =
             IF th[t].model = Nothing THEN [Failed(r, "HTTPException") EXCEPT !.status_code = 503]
             ELSE IF y_primary # "ok" THEN Failed(r, y_primary)
             ELSE IF th[t].run_shadow
             THEN CallGetModel(r, ShadowAlias(th[t].chosen), FALSE, "shadow")
             ELSE Answered(r)]
  /\ UNCHANGED <<tooling, route, sha, bctx, http, cache, clock, loads>>

\* lines 384-424: the inference of the shadow model and the response
PredictShadow(t) ==
  /\ th[t].pc = "shadow"
  /\ \E y_shadow \in InferOutcomes :
       th' = [th EXCEPT ![t] =
         IF th[t].model = Nothing THEN Answered(@)
         ELSE IF y_shadow = "ok" \/ ShadowSwallows
         THEN [Answered(@) EXCEPT !.y_shadow = y_shadow]
         ELSE [Failed(@, y_shadow) EXCEPT !.y_shadow = y_shadow]]
  /\ UNCHANGED <<tooling, route, sha, bctx, http, cache, clock, loads>>

PredictSteps(t) ==
  \/ PredictPrimary(t)
  \/ PredictInfer(t)
  \/ PredictShadow(t)

\* GET /health, lines 281-285
Health(t) ==
  /\ Free(t)
  /\ \E reg_ok \in RegistryChecks :
       th' = [th EXCEPT ![t] =
         CallRefresh([Accept(t, "health", "gate") EXCEPT !.reg_ok = reg_ok],
                     FALSE, FALSE, "report")]
  /\ UNCHANGED <<tooling, route, sha, bctx, http, cache, clock, loads>>

\* lines 287-302
HealthReport(t) ==
  /\ th[t].pc = "report"
  /\ th' = [th EXCEPT ![t] = [@ EXCEPT !.pc = "done", !.status_code = 200,
                                       !.prod_model_loaded = cache.model_prod # Nothing,
                                       !.prod_version = cache.prod_version]]
  /\ UNCHANGED <<tooling, route, sha, bctx, http, cache, clock, loads>>

\* GET /readyz, lines 259-268: the registry check and the call of
\* _prod_model_loadable
Readyz(t) ==
  /\ Free(t)
  /\ \E reg_ok \in RegistryChecks :
       LET request == [Accept(t, "readyz", "gate") EXCEPT !.reg_ok = reg_ok]
       IN  th' = [th EXCEPT ![t] =
             IF reg_ok THEN CallGetModel(request, ALIAS_PROD, TRUE, "ready")
             ELSE [request EXCEPT !.pc = "done", !.status_code = 503]]
  /\ UNCHANGED <<tooling, route, sha, bctx, http, cache, clock, loads>>

\* line 276
ReadyzReady(t) ==
  /\ th[t].pc = "ready"
  /\ th' = [th EXCEPT ![t] = [@ EXCEPT !.pc = "done", !.status_code = 200]]
  /\ UNCHANGED <<tooling, route, sha, bctx, http, cache, clock, loads>>

\* GET /livez, lines 251-254
Livez(t) ==
  /\ Free(t)
  /\ th' = [th EXCEPT ![t] = [Accept(t, "livez", "done") EXCEPT !.status_code = 200]]
  /\ UNCHANGED <<tooling, route, sha, bctx, http, cache, clock, loads>>

\* the release tooling repoints an alias of the registry while the service runs, as
\* apply_promotion does with prod and the candidate version (promote.py line 55)
RegistryRepoint(alias, version) ==
  /\ version # None
  /\ aliases[alias] # version
  /\ aliases' = AliasesAfter(aliases, SetAliasCall(alias, version))
  /\ UNCHANGED <<serving, tags, pc, args, loc, decision, calls, reads, outcome, budget,
                 faults, hist, prodlog>>

\* time.time() moves on; only line 212 reads it, so the clock is moved when a
\* thread is about to read it
Tick ==
  /\ \E t \in Threads : th[t].pc = "gate"
  /\ clock < ModelCacheTtl + MaxTicks
  /\ clock' = clock + 1
  /\ UNCHANGED <<tooling, route, sha, bctx, http, cache, th, loads>>

\* the process has just started: nothing cached, no request on a thread
CacheOff ==
  /\ cache = EmptyCache
  /\ clock = ModelCacheTtl
  /\ th = [t \in Threads |-> NoCall(0)]
  /\ loads = NoLoads

\* the serving side takes no step in the runs of the release tooling
ServingOff ==
  /\ route = NoRoute
  /\ BucketOff
  /\ AppOff
  /\ CacheOff

----------------------------------------------------------------------------
(* Initial registries *)

\* what register.py writes on a new version (lines 83-95), as in the tests'
\* _valid_candidate_tags
ValidCandidateTags ==
  [k \in {TAG_DATASET_FINGERPRINT, TAG_GIT_SHA, TAG_CONFIG_HASH, TAG_TRAINING_RUN_ID,
          TAG_GATE, TAG_RELEASE_STATUS, TAG_SOURCE_RUN_ID} |->
     CASE k = TAG_DATASET_FINGERPRINT -> Text("abc")
       [] k = TAG_GIT_SHA -> Text("deadbeef")
       [] k = TAG_CONFIG_HASH -> Text("cfg123")
       [] k = TAG_TRAINING_RUN_ID -> Text("trainrun123")
       [] k = TAG_GATE -> Text(GATE_PASSED)
       [] k = TAG_RELEASE_STATUS -> Text(ALIAS_CANDIDATE)
       [] k = TAG_SOURCE_RUN_ID -> Text("run1")]

\* a tag mapping without `key`
Without(mapping, key) == [k \in DOMAIN mapping \ {key} |-> mapping[k]]

\* `edit` is <<key, values>>: no value removes the key, one value sets it
Edited(mapping, edit) ==
  IF edit[2] = <<>> THEN Without(mapping, edit[1]) ELSE Put(mapping, edit[1], edit[2][1])

RequiredEdits ==
  {<<TAG_DATASET_FINGERPRINT, <<Text("abc")>> >>, <<TAG_GIT_SHA, <<>> >>,
   <<TAG_CONFIG_HASH, <<Text(SP)>> >>}

GateEdits ==
  {<<TAG_GATE, <<Text(GATE_PASSED)>> >>, <<TAG_GATE, << <<SP, GATE_PASSED, SP>> >> >>,
   <<TAG_GATE, <<Text(GATE_FAILED)>> >>, <<TAG_GATE, <<>> >>}

StatusEdits ==
  {<<TAG_RELEASE_STATUS, <<Text(ALIAS_CANDIDATE)>> >>,
   <<TAG_RELEASE_STATUS, << <<SP, ALIAS_CANDIDATE>> >> >>,
   <<TAG_RELEASE_STATUS, <<Text(ALIAS_PROD)>> >>}

RunEdits ==
  {<<TAG_SOURCE_RUN_ID, <<Text("run1")>> >>, <<TAG_SOURCE_RUN_ID, <<Text("run9")>> >>,
   <<TAG_SOURCE_RUN_ID, <<>> >>}

\* the tag mappings a candidate may carry when the policy is evaluated
PolicyProfiles ==
  {Edited(Edited(Edited(Edited(ValidCandidateTags, r), g), s), n) :
     r \in RequiredEdits, g \in GateEdits, s \in StatusEdits, n \in RunEdits}

\* a version promoted earlier, with or without a recorded previous prod version
PromotedTags(prev) ==
  LET t == Put(Put(ValidCandidateTags, TAG_RELEASE_STATUS, Text(ALIAS_PROD)),
               TAG_PROMOTED_FROM_ALIAS, Text(ALIAS_CANDIDATE))
  IN  IF prev = EmptyStr THEN t ELSE Put(t, TAG_PREVIOUS_PROD_VERSION, prev)

WorkflowProfiles ==
  {ValidCandidateTags, PromotedTags(EmptyStr)}

\* no invocation started; `runs` invocations to come, `failed` failures behind
InitRuns(runs, failed) ==
  /\ pc = [p \in Procs |-> "idle"]
  /\ args = [p \in Procs |-> NoArgs]
  /\ loc = [p \in Procs |-> NoLocals]
  /\ decision = [p \in Procs |-> NoDecision]
  /\ calls = [p \in Procs |-> <<>>]
  /\ reads = [p \in Procs |-> <<>>]
  /\ outcome = [p \in Procs |-> "none"]
  /\ budget = [p \in Procs |-> IF p = "p1" THEN runs ELSE 0]
  /\ faults = failed
  /\ hist = [p \in Procs |-> NoHistory]
  /\ prodlog = <<>>

InitProcs(runs) == InitRuns(runs, 0)

\* any aliases; one version carries any of the policy profiles, the others what
\* register.py wrote
InitPolicy ==
  /\ aliases \in [AliasNames -> Versions \cup {None}]
  /\ \E focus \in Versions, t \in PolicyProfiles :
       tags = [v \in Versions |-> IF v = focus THEN t ELSE ValidCandidateTags]
  /\ InitProcs(1)
  /\ ServingOff

Init ==
  /\ aliases \in [AliasNames -> Versions \cup {None}]
  /\ tags \in [Versions -> WorkflowProfiles]
  /\ InitProcs(MaxRuns)
  /\ ServingOff

FromChoices == {ALIAS_CANDIDATE, ALIAS_CHAMPION}

ToChoices == {ALIAS_PROD, ALIAS_CHAMPION}

EvaluateSteps(p) ==
  \/ EvalResolveFrom(p)
  \/ EvalResolveTo(p)
  \/ EvalLoadCandidate(p)
  \/ EvalGetRun(p)
  \/ EvalReturn(p)

ApplySteps(p) ==
  \/ ApplyReadProd(p)
  \/ ApplySetProd(p)
  \/ ApplySetChampion(p)
  \/ ApplyTagStatus(p)
  \/ ApplyTagFrom(p)
  \/ ApplyTagPrev(p)
  \/ ApplyTagOldProd(p)

RollbackSteps(p) ==
  \/ RollbackReadProd(p)
  \/ RollbackSetAlias(p)
  \/ RollbackTagPrev(p)

\* direct calls of evaluate_promotion_policy
NextPolicy ==
  \E p \in Procs :
    \/ \E f \in FromChoices, t \in ToChoices : EvaluateStart(p, f, t)
    \/ EvaluateSteps(p)

\* invocations of the promote CLI
NextPromote ==
  \E p \in Procs :
    \/ \E f \in FromChoices, t \in ToChoices, d \in BOOLEAN : PromoteStart(p, f, t, d)
    \/ EvaluateSteps(p)
    \/ MainAfterDecision(p)
    \/ ApplySteps(p)

\* direct calls of apply_promotion and rollback_prod, and crashes
Next ==
  \E p \in Procs :
    \/ \E v \in Versions, f \in FromChoices : ApplyStart(p, v, f)
    \/ ApplySteps(p)
    \/ RollbackStart(p)
    \/ RollbackSteps(p)
    \/ Crash(p)

\* the versions of the promotion and rollback history: one more than MaxVersion, so
\* that three promotions can name three versions
HistoryVersions == {ToString(i) : i \in 1..(MaxVersion + 1)}

\* a registry in which register.py registered every version and nothing was promoted;
\* no registry call fails in the runs of the history
InitHistory ==
  /\ aliases = [a \in AliasNames |-> None]
  /\ tags = [v \in HistoryVersions |-> ValidCandidateTags]
  /\ InitRuns(MaxHistory, MaxFaults)
  /\ ServingOff

\* promotions of the candidate alias and rollbacks, one after the other
NextHistory ==
  \E p \in Procs :
    \/ \E v \in DOMAIN tags : ApplyStart(p, v, ALIAS_CANDIDATE)
    \/ ApplySteps(p)
    \/ RollbackStart(p)
    \/ RollbackSteps(p)

\* two operators run the promote CLI for the same candidate at the same time: the
\* candidate alias names the newest version, prod and champion name the version
\* promoted before it or nothing; no registry call fails
InitPromoteRace ==
  /\ \E prior \in {None, "1"} :
       /\ aliases = [a \in AliasNames |-> IF a = ALIAS_CANDIDATE THEN "2" ELSE prior]
       /\ tags = [v \in Versions |->
                   IF v = prior THEN PromotedTags(EmptyStr) ELSE ValidCandidateTags]
  /\ pc = [p \in Procs |-> "idle"]
  /\ args = [p \in Procs |-> NoArgs]
  /\ loc = [p \in Procs |-> NoLocals]
  /\ decision = [p \in Procs |-> NoDecision]
  /\ calls = [p \in Procs |-> <<>>]
  /\ reads = [p \in Procs |-> <<>>]
  /\ outcome = [p \in Procs |-> "none"]
  /\ budget = [p \in Procs |-> 1]
  /\ faults = MaxFaults
  /\ hist = [p \in Procs |-> NoHistory]
  /\ prodlog = <<>>
  /\ ServingOff

\* each operator runs `promote --from-alias candidate --to-alias prod` once; the
\* registry calls of the two runs interleave in any order
NextPromoteRace ==
  \E p \in Procs :
    \/ PromoteStart(p, ALIAS_CANDIDATE, ALIAS_PROD, FALSE)
    \/ EvaluateSteps(p)
    \/ MainAfterDecision(p)
    \/ ApplySteps(p)

\* the release tooling takes no step in the runs of the serving side
RegistryOff ==
  /\ aliases = [a \in AliasNames |-> None]
  /\ tags = [v \in Versions |-> ValidCandidateTags]
  /\ InitRuns(0, MaxFaults)

\* the modes a caller may hand to decide_routing: the four modes and an unknown one
RouteModes == {MODE_PROD, MODE_CANDIDATE, MODE_SHADOW, MODE_CANARY, "blue"}

PctInputs == (0 - MaxBeyond)..(FullPct + MaxBeyond)

BucketInputs == (0 - MaxBeyond)..(MaxBucket + MaxBeyond)

\* any mode, canary_pct and bucket
InitRouting ==
  /\ RegistryOff
  /\ CacheOff
  /\ BucketOff
  /\ AppOff
  /\ \E m \in RouteModes, c \in PctInputs, b \in BucketInputs :
       route = [NoRoute EXCEPT !.mode = m, !.canary_pct = c, !.bucket = b]

NextRouting == DecideRoutingCall

\* request ids: none, the empty text, one a client sent and one the service made
RequestIds == {Nothing, Some(EmptyStr), Some(Text("abc-123")), Some(Text("9f1c"))}

\* rows: one row written in two key orders, another row, no row, and a row that
\* json.dumps cannot serialize
Payloads ==
  {<< <<<<"x", "1">>, <<"y", "2">>>> >>, << <<<<"y", "2">>, <<"x", "1">>>> >>,
   << <<<<"x", "3">>>> >>, <<>>, << <<<<"x", OBJECT>>>> >>}

Contexts ==
  {BucketContext(r, c, rows) : r \in RequestIds, c \in BOOLEAN, rows \in Payloads}

\* any two contexts
InitBucket ==
  /\ RegistryOff
  /\ CacheOff
  /\ route = NoRoute
  /\ AppOff
  /\ sha = <<>>
  /\ \E c1 \in Contexts, c2 \in Contexts :
       bctx = [i \in Slots |-> [NoBucketCall EXCEPT !.ctx = IF i = 1 THEN c1 ELSE c2]]

NextBucket == \E i \in Slots : ChooseCanaryBucketCall(i)

\* the X-Request-Id header of a request: absent, blank, an id, the id with spaces
\* around it
Headers == {Nothing, Some(Text(SP)), Some(Text("abc-123")), Some(<<SP, "abc-123", SP>>)}

\* the rows of a request body, parsed from JSON
Bodies == {rows \in Payloads : Serializable(rows)}

\* settings.canary_pct
CanaryPcts == {0, 10, 100}

\* one request to POST /predict
InitApp ==
  /\ RegistryOff
  /\ CacheOff
  /\ route = NoRoute
  /\ BucketOff
  /\ \E h \in Headers, m \in {MODE_PROD, MODE_CANDIDATE, MODE_SHADOW, MODE_CANARY},
        rows \in Bodies, c \in CanaryPcts :
       http = [NoRequest EXCEPT !.stage = "received", !.header = h, !.mode = m,
                                !.rows = rows, !.canary_pct = c]

NextApp ==
  \/ RequestIdMiddleware
  \/ Predict
  \/ RequestIdEcho

\* the serving process has just started against a registry in which prod and
\* candidate resolve or not; the requests come one after the other on one thread
InitCache ==
  /\ \E prod \in {None, "1"}, candidate \in {None, "2"} :
       aliases = [a \in AliasNames |-> IF a = ALIAS_CANDIDATE THEN candidate ELSE prod]
  /\ tags = [v \in Versions |-> ValidCandidateTags]
  /\ InitRuns(0, MaxFaults)
  /\ route = NoRoute
  /\ BucketOff
  /\ AppOff
  /\ cache = EmptyCache
  /\ clock = ModelCacheTtl
  /\ th = [t \in Threads |-> NoCall(IF t = 1 THEN MaxRequests ELSE 0)]
  /\ loads = NoLoads

Calls(t) ==
  \/ \E force \in BOOLEAN, load_candidate \in BOOLEAN : RefreshCall(t, force, load_candidate)
  \/ \E alias \in {ALIAS_PROD, ALIAS_CANDIDATE}, required \in BOOLEAN :
       GetModelCall(t, alias, required)

Endpoints(t) ==
  \/ \E mode \in {MODE_PROD, MODE_CANDIDATE, MODE_SHADOW, MODE_CANARY} : PredictRoute(t, mode)
  \/ Health(t)
  \/ Readyz(t)
  \/ Livez(t)

EndpointSteps(t) ==
  \/ PredictSteps(t)
  \/ HealthReport(t)
  \/ ReadyzReady(t)

NextCache ==
  \/ \E t \in Threads :
       \/ Calls(t)
       \/ Endpoints(t)
       \/ RefreshSteps(t)
       \/ GetModelRead(t)
       \/ EndpointSteps(t)
  \/ Tick
  \/ RegistryRepoint(ALIAS_PROD, aliases[ALIAS_CANDIDATE])

SpecCache == InitCache /\ [][NextCache]_vars

\* the serving process has just started; each thread takes calls of
\* _refresh_models_if_needed and _get_model, and the threads interleave.  The calls
\* race at one instant: forced or not, before and after the first stamp of
\* last_refresh
InitRace ==
  /\ \E candidate \in {None, "2"} :
       aliases = [a \in AliasNames |-> IF a = ALIAS_CANDIDATE THEN candidate ELSE "1"]
  /\ tags = [v \in Versions |-> ValidCandidateTags]
  /\ InitRuns(0, MaxFaults)
  /\ route = NoRoute
  /\ BucketOff
  /\ AppOff
  /\ cache = EmptyCache
  /\ clock = ModelCacheTtl
  /\ th = [t \in Threads |-> NoCall(IF t = 1 THEN MaxRequests - 1 ELSE 1)]
  /\ loads = NoLoads

NextRace ==
  \/ \E t \in Threads :
       \/ Calls(t)
       \/ RefreshSteps(t)
       \/ GetModelRead(t)

SpecRace == InitRace /\ [][NextRace]_vars

SpecPolicy == InitPolicy /\ [][NextPolicy]_vars

SpecApp == InitApp /\ [][NextApp]_vars

SpecBucket == InitBucket /\ [][NextBucket]_vars

SpecRouting == InitRouting /\ [][NextRouting]_vars

SpecHistory == InitHistory /\ [][NextHistory]_vars

SpecPromote == Init /\ [][NextPromote]_vars

SpecPromoteRace == InitPromoteRace /\ [][NextPromoteRace]_vars

Spec == Init /\ [][Next]_vars

----------------------------------------------------------------------------
(* Properties *)

Codes(violations) == [i \in 1..Len(violations) |-> violations[i].code]

IsBlank(s) == \A i \in 1..Len(s) : s[i] = SP

\* s is `word` with any whitespace around it
IsPadded(s, word) ==
  \E i \in 1..Len(s) : s[i] = word /\ \A j \in 1..Len(s) : j # i => s[j] = SP

Evaluating(p) == pc[p] \in {"eval_from", "eval_to", "eval_load", "eval_get_run", "eval_return"}

\* what an ended process reports to its caller: SystemExit's code, 0 after a
\* normal return of main, 1 after an uncaught exception
ExitCode(how) ==
  CASE how = "SystemExit0" -> 0
    [] how = "SystemExit2" -> 2
    [] how = "returned" -> 0
    [] OTHER -> 1

\* C1: evaluate_promotion_policy is read-only: no step of an evaluation changes an
\* alias or a tag or issues a set-alias or set-tag call, and the evaluation returns
\* its decision, whatever it is, with an empty record of mutating calls.
C1_EvaluateReadOnly ==
  [][\A p \in Procs :
       (Evaluating(p) /\ pc'[p] # pc[p]) =>
         /\ aliases' = aliases
         /\ tags' = tags
         /\ calls'[p] = <<>>
         /\ (pc[p] = "eval_return" => decision'[p].made)]_vars

C1_Witness ==
  \E p \in Procs :
    /\ args[p].entry = "evaluate"
    /\ outcome[p] = "returned"
    /\ decision[p].made
    /\ ~decision[p].allowed
    /\ \E i \in 1..Len(decision[p].errors) : decision[p].errors[i].code = "GATE_NOT_PASSED"
    /\ calls[p] = <<>>

\* C2: a promote invocation with --dry-run issues no alias or tag mutation call,
\* whatever the decision, and ends with exit code 0 when the decision is allowed and
\* 2 when it is denied.
C2_DryRunNoMutation ==
  \A p \in Procs :
    (args[p].entry = "promote" /\ args[p].dry_run) =>
      /\ calls[p] = <<>>
      /\ (pc[p] = "done" =>
            /\ decision[p].made
            /\ ExitCode(outcome[p]) = IF decision[p].allowed THEN 0 ELSE 2
            /\ outcome[p] \in {"SystemExit0", "SystemExit2"})

C2_Witness ==
  \E p \in Procs :
    /\ args[p].entry = "promote"
    /\ args[p].dry_run
    /\ pc[p] = "done"
    /\ decision[p].allowed
    /\ ExitCode(outcome[p]) = 0
    /\ calls[p] = <<>>

\* C3: in an invocation of the promote CLI a mutating registry call is issued only
\* after the decision of that invocation was allowed and --dry-run was not given; a
\* denied invocation without --dry-run exits with code 2 having issued no mutating
\* call.
C3_MutationOnlyAfterAllowed ==
  \A p \in Procs :
    args[p].entry = "promote" =>
      /\ (calls[p] # <<>> => decision[p].made /\ decision[p].allowed /\ ~args[p].dry_run)
      /\ (decision[p].made /\ ~decision[p].allowed /\ ~args[p].dry_run
            /\ pc[p] \notin {"main_decided"} =>
              /\ pc[p] = "done"
              /\ outcome[p] = "SystemExit2"
              /\ ExitCode(outcome[p]) = 2
              /\ calls[p] = <<>>)

C3_Witness ==
  \E p \in Procs :
    /\ args[p].entry = "promote"
    /\ ~args[p].dry_run
    /\ decision[p].made
    /\ ~decision[p].allowed
    /\ outcome[p] = "SystemExit2"
    /\ calls[p] = <<>>

\* C4: every decision evaluate_promotion_policy returns has allowed equal to
\* "errors is empty"; the warnings play no part in it: with from_alias resolved they
\* are MISSING_SOURCE_RUN_ID when the source-run-id tag is missing or blank,
\* SOURCE_RUN_ID_NOT_FOUND when it is set and get_run fails, and none otherwise.
C4_AllowedIffNoErrors ==
  \A p \in Procs :
    decision[p].made =>
      /\ decision[p].allowed <=> decision[p].errors = <<>>
      /\ (args[p].entry = "evaluate" /\ aliases[args[p].from_alias] # None) =>
           Codes(decision[p].warnings) =
             IF \/ TAG_SOURCE_RUN_ID \notin DOMAIN tags[aliases[args[p].from_alias]]
                \/ IsBlank(tags[aliases[args[p].from_alias]][TAG_SOURCE_RUN_ID])
             THEN <<"MISSING_SOURCE_RUN_ID">>
             ELSE IF ~loc[p].run_found THEN <<"SOURCE_RUN_ID_NOT_FOUND">> ELSE <<>>

C4_Witness ==
  \E p \in Procs :
    /\ decision[p].made
    /\ decision[p].allowed
    /\ Codes(decision[p].warnings) = <<"SOURCE_RUN_ID_NOT_FOUND">>

PolicyCodes ==
  <<"MISSING_REQUIRED_TAGS", "GATE_NOT_PASSED", "INVALID_RELEASE_STATUS", "NOOP_PROMOTION">>

\* the version from_alias resolves to in the registry, and its tags
Candidate(p) == aliases[args[p].from_alias]

CandidateTags(p) == tags[Candidate(p)]

RequiredTagMissing(p) ==
  \E i \in 1..Len(_REQUIRED_TAGS) :
    \/ _REQUIRED_TAGS[i] \notin DOMAIN CandidateTags(p)
    \/ IsBlank(CandidateTags(p)[_REQUIRED_TAGS[i]])

TagIs(p, key, word) == key \in DOMAIN CandidateTags(p) /\ CandidateTags(p)[key] = Text(word)

TagIsPadded(p, key, word) ==
  key \in DOMAIN CandidateTags(p) /\ IsPadded(CandidateTags(p)[key], word)

Resolved(p) == decision[p].made /\ args[p].entry = "evaluate" /\ Candidate(p) # None

\* C5 as stated: with from_alias resolved, the errors are, in this order and each
\* independently of the others, MISSING_REQUIRED_TAGS iff a required tag is missing
\* or blank, GATE_NOT_PASSED iff the gate tag is not "passed", INVALID_RELEASE_STATUS
\* iff the release-status tag differs from from_alias, NOOP_PROMOTION iff to_alias
\* resolves to the candidate version.
C5_Original ==
  \A p \in Procs :
    Resolved(p) =>
      Codes(decision[p].errors) =
        SelectSeq(PolicyCodes, LAMBDA c :
          CASE c = "MISSING_REQUIRED_TAGS" -> RequiredTagMissing(p)
            [] c = "GATE_NOT_PASSED" -> ~TagIs(p, TAG_GATE, GATE_PASSED)
            [] c = "INVALID_RELEASE_STATUS" -> ~TagIs(p, TAG_RELEASE_STATUS, args[p].from_alias)
            [] c = "NOOP_PROMOTION" -> aliases[args[p].to_alias] = Candidate(p))

\* C5, amended: the same, the gate tag and the release-status tag being compared
\* after their surrounding whitespace is stripped: GATE_NOT_PASSED iff the stripped
\* gate tag is not "passed", INVALID_RELEASE_STATUS iff the stripped release-status
\* tag differs from from_alias.
C5_ChecksAccumulate ==
  \A p \in Procs :
    Resolved(p) =>
      Codes(decision[p].errors) =
        SelectSeq(PolicyCodes, LAMBDA c :
          CASE c = "MISSING_REQUIRED_TAGS" -> RequiredTagMissing(p)
            [] c = "GATE_NOT_PASSED" -> ~TagIsPadded(p, TAG_GATE, GATE_PASSED)
            [] c = "INVALID_RELEASE_STATUS" ->
                 ~TagIsPadded(p, TAG_RELEASE_STATUS, args[p].from_alias)
            [] c = "NOOP_PROMOTION" -> aliases[args[p].to_alias] = Candidate(p))

C5_Witness ==
  \E p \in Procs :
    /\ Resolved(p)
    /\ Codes(decision[p].errors) = PolicyCodes

\* C6: when from_alias does not resolve, the decision is allowed=false with the one
\* error MISSING_ALIAS and no warning, and the evaluation reads no version's tags
\* and calls no get_run.
C6_MissingAliasStops ==
  \A p \in Procs :
    (args[p].entry = "evaluate" /\ Candidate(p) = None) =>
      /\ \A i \in 1..Len(reads[p]) : reads[p][i] = "get_model_version_by_alias"
      /\ decision[p].made =>
           /\ ~decision[p].allowed
           /\ Codes(decision[p].errors) = <<"MISSING_ALIAS">>
           /\ decision[p].warnings = <<>>

C6_Witness ==
  \E p \in Procs :
    /\ args[p].entry = "evaluate"
    /\ Candidate(p) = None
    /\ decision[p].made
    /\ outcome[p] = "returned"
    /\ Len(reads[p]) = 2

HasTag(version, key, value) == key \in DOMAIN tags[version] /\ tags[version][key] = value

AllCallsOk(p) == \A i \in 1..Len(calls[p]) : calls[p][i].ok

\* the process ran apply_promotion to its end
ApplyReturned(p) ==
  loc[p].apply_version # None /\ pc[p] = "done" /\ outcome[p] = "returned"

\* the effect of a successful mutating call is in the registry
EffectHolds(call) ==
  IF call.op = "set_registered_model_alias"
  THEN aliases[call.alias] = call.version
  ELSE HasTag(call.version, call.key, call.value)

\* the tagging of the old prod version, the one best-effort call
BestEffort(call) ==
  /\ call.op = "set_model_version_tag"
  /\ call.key = TAG_RELEASE_STATUS
  /\ call.value = Text(RELEASE_STATUS_PREVIOUS_PROD)

PromotionInPlace(p) ==
  /\ aliases[ALIAS_PROD] = loc[p].apply_version
  /\ aliases[ALIAS_CHAMPION] = loc[p].apply_version
  /\ HasTag(loc[p].apply_version, TAG_RELEASE_STATUS, Text(ALIAS_PROD))
  /\ HasTag(loc[p].apply_version, TAG_PROMOTED_FROM_ALIAS, Text(loc[p].apply_from))

\* C7 as stated: after apply_promotion(candidate_version, from_alias) completes with
\* every registry call succeeding, prod and champion are at the candidate, the
\* candidate carries release_status=prod and promoted_from_alias=from_alias; if prod
\* resolved to P before, the candidate carries previous_prod_version=P and P carries
\* release_status=previous_prod; if prod did not resolve, no previous_prod_version
\* tag is written.
C7_Original ==
  \A p \in Procs :
    (ApplyReturned(p) /\ AllCallsOk(p)) =>
      /\ PromotionInPlace(p)
      /\ loc[p].prev_prod_version # None =>
           /\ HasTag(loc[p].apply_version, TAG_PREVIOUS_PROD_VERSION,
                     Text(loc[p].prev_prod_version))
           /\ HasTag(loc[p].prev_prod_version, TAG_RELEASE_STATUS,
                     Text(RELEASE_STATUS_PREVIOUS_PROD))
      /\ loc[p].prev_prod_version = None =>
           \A i \in 1..Len(calls[p]) : calls[p][i].call.key # TAG_PREVIOUS_PROD_VERSION

\* the statement of C7 where the candidate is not the version prod already
\* resolves to
ApplyOntoOtherVersion ==
  \A p \in Procs :
    (ApplyReturned(p) /\ AllCallsOk(p) /\ loc[p].prev_prod_version # loc[p].apply_version) =>
      /\ PromotionInPlace(p)
      /\ loc[p].prev_prod_version # None =>
           /\ HasTag(loc[p].apply_version, TAG_PREVIOUS_PROD_VERSION,
                     Text(loc[p].prev_prod_version))
           /\ HasTag(loc[p].prev_prod_version, TAG_RELEASE_STATUS,
                     Text(RELEASE_STATUS_PREVIOUS_PROD))
      /\ loc[p].prev_prod_version = None =>
           \A i \in 1..Len(calls[p]) : calls[p][i].call.key # TAG_PREVIOUS_PROD_VERSION

\* C8 as stated: re-running apply_promotion for the same candidate version, after a
\* complete run or after a run that crashed between two of its steps, leaves the
\* registry as one uninterrupted apply does: prod and champion at the candidate, the
\* candidate's release_status=prod, and its previous_prod_version still naming the
\* version that was prod before the first run.  (Stated for a first run that found
\* prod at another version or unresolved, so that it had something to promote.)
C8_Original ==
  \A p \in Procs :
    (/\ ApplyReturned(p) /\ AllCallsOk(p)
     /\ hist[p].entry = "apply"
     /\ hist[p].version = loc[p].apply_version
     /\ hist[p].prev_prod_version # loc[p].apply_version
     /\ hist[p].outcome \in {"returned", "crashed"}) =>
      /\ aliases[ALIAS_PROD] = loc[p].apply_version
      /\ aliases[ALIAS_CHAMPION] = loc[p].apply_version
      /\ HasTag(loc[p].apply_version, TAG_RELEASE_STATUS, Text(ALIAS_PROD))
      /\ hist[p].prev_prod_version # None =>
           HasTag(loc[p].apply_version, TAG_PREVIOUS_PROD_VERSION,
                  Text(hist[p].prev_prod_version))

\* C9: a failure of a mutation step of apply_promotion or rollback_prod other than
\* the best-effort tagging of the old prod version ends the call with the exception
\* raised to the caller: it is the last call issued, and the effect of every call
\* that succeeded before it is still in the registry.
C9_FailureSurfaces ==
  \A p \in Procs :
    \A i \in 1..Len(calls[p]) :
      (~calls[p][i].ok /\ ~BestEffort(calls[p][i].call)) =>
        /\ i = Len(calls[p])
        /\ pc[p] = "done"
        /\ outcome[p] = "MlflowException"
        /\ \A j \in 1..(i - 1) : calls[p][j].ok /\ EffectHolds(calls[p][j].call)

C9_Witness ==
  \E p \in Procs :
    /\ outcome[p] = "MlflowException"
    /\ Len(calls[p]) = 2
    /\ calls[p][1].ok
    /\ ~calls[p][2].ok
    /\ EffectHolds(calls[p][1].call)
    /\ ~EffectHolds(calls[p][2].call)

OnlyOldProdTagFailed(p) ==
  \E i \in 1..Len(calls[p]) :
    /\ ~calls[p][i].ok
    /\ calls[p][i].call = ApplyOldProdTagCall(loc[p])
    /\ i = Len(calls[p])
    /\ \A j \in 1..(i - 1) : calls[p][j].ok

\* C10: when the only failing call of apply_promotion is the tagging of the old
\* prod version with release_status=previous_prod, apply_promotion returns normally
\* with both aliases and the three tags of the new prod version in place.
C10_BestEffortOldProdTag ==
  \A p \in Procs :
    (loc[p].apply_version # None /\ OnlyOldProdTagFailed(p)) =>
      /\ pc[p] = "done"
      /\ outcome[p] = "returned"
      /\ PromotionInPlace(p)
      /\ HasTag(loc[p].apply_version, TAG_PREVIOUS_PROD_VERSION,
                Text(loc[p].prev_prod_version))

C10_Witness ==
  \E p \in Procs :
    /\ loc[p].apply_version # None
    /\ OnlyOldProdTagFailed(p)
    /\ outcome[p] = "returned"
    /\ loc[p].prev_prod_version # loc[p].apply_version
    /\ ~HasTag(loc[p].prev_prod_version, TAG_RELEASE_STATUS, Text(RELEASE_STATUS_PREVIOUS_PROD))

\* the process ran rollback_prod to its end
RollbackEnded(p) == args[p].entry = "rollback" /\ pc[p] = "done"

\* rollback_prod found no prod version, or no previous prod version recorded on it
RollbackBlocked(p) ==
  RollbackEnded(p) /\ (loc[p].current_prod = None \/ loc[p].prev = EmptyStr)

\* C11 as stated: rollback_prod fails with the rollback-blocked error (the
\* RuntimeError of line 31) and repoints no alias and writes no tag whenever the
\* prod alias does not resolve or the current prod version has no non-blank
\* previous_prod_version tag.
C11_Original ==
  \A p \in Procs :
    RollbackBlocked(p) => outcome[p] = "RuntimeError" /\ calls[p] = <<>>

\* a blocked rollback_prod issues no mutating call, whichever error ends it, and the
\* error is the rollback-blocked one when prod resolved
BlockedRollbackMutatesNothing ==
  \A p \in Procs :
    RollbackBlocked(p) =>
      /\ calls[p] = <<>>
      /\ outcome[p] \in {"RuntimeError", "MlflowException"}
      /\ outcome[p] = "RuntimeError" <=> loc[p].current_prod # None

\* C12: a successful rollback_prod, run when prod resolves to version C whose
\* previous_prod_version tag is P, issues exactly two mutating calls, in this order:
\* prod is repointed to P, then P's previous_prod_version tag is set to C; both
\* effects are in the registry and the tag read on C still names P.
C12_RollbackEffects ==
  \A p \in Procs :
    (RollbackEnded(p) /\ outcome[p] = "returned") =>
      LET C == loc[p].current_prod
          P == Word(loc[p].prev)
      IN  /\ C \in Versions /\ P \in Versions
          /\ calls[p] = <<Logged(SetAliasCall(ALIAS_PROD, P), TRUE),
                          Logged(SetTagCall(P, TAG_PREVIOUS_PROD_VERSION, Text(C)), TRUE)>>
          /\ aliases[ALIAS_PROD] = P
          /\ HasTag(P, TAG_PREVIOUS_PROD_VERSION, Text(C))
          /\ Strip(Get(tags[C], TAG_PREVIOUS_PROD_VERSION, EmptyStr)) = Text(P)

C12_Witness ==
  \E p \in Procs :
    /\ RollbackEnded(p) /\ outcome[p] = "returned"
    /\ Len(calls[p]) = 2
    /\ loc[p].current_prod # Word(loc[p].prev)
    /\ aliases[ALIAS_PROD] = Word(loc[p].prev)
    /\ aliases[ALIAS_CHAMPION] = loc[p].current_prod

\* three repoints of prod, the third by a promotion: A, B and C are the versions
\* they made prod
ThreeProds == Len(prodlog) >= 3 /\ prodlog[3].by = "apply"

\* C13: rollback history has depth one.  After promotions made A, then B, then C
\* the prod version, the k-th consecutive rollback makes B the prod version when k
\* is odd and C when k is even (so the second undoes the first), and no rollback
\* makes A the prod version unless A is B or C.
C13_RollbackDepthOne ==
  ThreeProds =>
    LET A == prodlog[1].version
        B == prodlog[2].version
        C == prodlog[3].version
    IN  /\ \A k \in 4..Len(prodlog) :
             /\ prodlog[k].by = "rollback"
             /\ prodlog[k].version = IF (k - 3) % 2 = 1 THEN B ELSE C
             /\ A \notin {B, C} => prodlog[k].version # A
        /\ aliases[ALIAS_PROD] = prodlog[Len(prodlog)].version

C13_Witness ==
  /\ ThreeProds
  /\ Len(prodlog) >= 6
  /\ \A k \in 1..3 : prodlog[k].by = "apply"
  /\ Cardinality({prodlog[k].version : k \in 1..3}) = 3
  /\ aliases[ALIAS_PROD] = prodlog[2].version
  /\ \E p \in Procs : RollbackEnded(p) /\ outcome[p] = "returned"

Modes == {MODE_PROD, MODE_CANDIDATE, MODE_SHADOW, MODE_CANARY}

Buckets == 0..99

\* canary_pct brought into 0..100
Clamped(canary_pct) ==
  IF canary_pct < 0 THEN 0 ELSE IF canary_pct > 100 THEN 100 ELSE canary_pct

\* the buckets decide_routing sends to the candidate in canary mode
CandidateBuckets(canary_pct) ==
  {b \in Buckets : decide_routing(MODE_CANARY, canary_pct, b).chosen = ALIAS_CANDIDATE}

\* C14: for a bucket in 0..99 and any canary_pct, decide_routing returns (prod, no
\* shadow) for mode prod, (candidate, no shadow) for mode candidate, (prod, shadow)
\* for mode shadow and, for mode canary, (candidate, shadow) when the bucket is
\* below the clamped canary_pct and (prod, shadow) otherwise; run_shadow is true
\* exactly for the modes shadow and canary.
C14_RoutingTable ==
  (route.called /\ route.bucket \in Buckets /\ route.mode \in Modes) =>
    /\ route.result.raised = None
    /\ route.result.chosen =
         CASE route.mode = MODE_PROD -> "prod"
           [] route.mode = MODE_CANDIDATE -> "candidate"
           [] route.mode = MODE_SHADOW -> "prod"
           [] route.mode = MODE_CANARY ->
                IF route.bucket < Clamped(route.canary_pct) THEN "candidate" ELSE "prod"
    /\ route.result.run_shadow <=> route.mode \in {MODE_SHADOW, MODE_CANARY}

C14_Witness ==
  /\ route.called
  /\ route.mode = MODE_CANARY
  /\ route.canary_pct = 10
  /\ route.bucket = 9
  /\ route.result.chosen = "candidate"
  /\ route.result.run_shadow

\* C15: decide_routing fails exactly when the bucket is outside 0..99, with the
\* bucket error in every mode, or when the mode is none of prod, candidate, shadow
\* and canary, with the unknown-mode error; for every other input it returns a
\* decision.
C15_RoutingErrors ==
  route.called =>
    /\ route.result.raised # None <=>
         (route.bucket \notin Buckets \/ route.mode \notin Modes)
    /\ route.bucket \notin Buckets => route.result = ValueError(BUCKET_MESSAGE)
    /\ (route.bucket \in Buckets /\ route.mode \notin Modes) =>
         route.result = ValueError(MODE_MESSAGE)
    /\ route.result.raised = None => route.result.chosen \in {"prod", "candidate"}

C15_Witness ==
  /\ route.called
  /\ route.mode = MODE_PROD
  /\ route.bucket = 100
  /\ route.result.raised = "ValueError"
  /\ route.result.message = BUCKET_MESSAGE

\* C16: in canary mode canary_pct is clamped to 0..100 and causes no error: the
\* number of buckets of 0..99 routed to the candidate is min(max(canary_pct, 0),
\* 100), so a percentage of 0 or less sends every bucket to prod and one of 100 or
\* more sends every bucket to the candidate, and a bucket routed to the candidate
\* stays with the candidate when canary_pct is raised.
C16_CanaryClamp ==
  (route.called /\ route.mode = MODE_CANARY /\ route.bucket \in Buckets) =>
    /\ route.result.raised = None
    /\ route.result.chosen = "candidate" <=> route.bucket < Clamped(route.canary_pct)
    /\ Cardinality(CandidateBuckets(route.canary_pct)) = Clamped(route.canary_pct)
    /\ route.canary_pct <= 0 => CandidateBuckets(route.canary_pct) = {}
    /\ route.canary_pct >= 100 => CandidateBuckets(route.canary_pct) = Buckets
    /\ CandidateBuckets(route.canary_pct) \subseteq CandidateBuckets(route.canary_pct + 1)

C16_Witness ==
  /\ route.called
  /\ route.mode = MODE_CANARY
  /\ route.canary_pct > 100
  /\ route.bucket = 99
  /\ route.result.chosen = "candidate"

\* the caller supplied a request id: the flag is set and the id is a non-empty text
ClientSupplied(ctx) ==
  ctx.client_provided_request_id /\ ctx.request_id # Nothing /\ Len(ctx.request_id[1]) > 0

\* every value of the rows is one json.dumps can write
Canonicalizable(rows) ==
  \A i \in 1..Len(rows) : \A j \in 1..Len(rows[i]) : rows[i][j][2] # OBJECT

\* two payloads are equal as lists of dicts, whatever the order their keys were
\* inserted in
SameRows(r1, r2) ==
  /\ Len(r1) = Len(r2)
  /\ \A i \in 1..Len(r1) :
       {<<r1[i][j][1], r1[i][j][2]>> : j \in 1..Len(r1[i])} =
       {<<r2[i][j][1], r2[i][j][2]>> : j \in 1..Len(r2[i])}

BothCalled == \A i \in Slots : bctx[i].called

SameBucket == bctx[1].decision.bucket = bctx[2].decision.bucket

\* C18 as stated: two contexts with the same client-supplied request id get the
\* same bucket whatever their payloads, and two contexts without a client-supplied
\* request id and with identical payloads get the same bucket whatever request_id
\* they carry.
C18_Original ==
  BothCalled =>
    /\ (/\ ClientSupplied(bctx[1].ctx) /\ ClientSupplied(bctx[2].ctx)
        /\ bctx[1].ctx.request_id = bctx[2].ctx.request_id) => SameBucket
    /\ (/\ ~ClientSupplied(bctx[1].ctx) /\ ~ClientSupplied(bctx[2].ctx)
        /\ SameRows(bctx[1].ctx.rows, bctx[2].ctx.rows)) => SameBucket

\* C18: two contexts with the same client-supplied request id get the same bucket,
\* seeded by the request id, whatever their payloads; two contexts without a
\* client-supplied request id and with identical payloads that can be
\* canonicalized get the same bucket, seeded by the payload, whatever request_id
\* they carry.
C18_StableBucket ==
  BothCalled =>
    /\ (/\ ClientSupplied(bctx[1].ctx) /\ ClientSupplied(bctx[2].ctx)
        /\ bctx[1].ctx.request_id = bctx[2].ctx.request_id) =>
         /\ SameBucket
         /\ \A i \in Slots : bctx[i].decision.seed_source = "request_id"
    /\ (/\ ~ClientSupplied(bctx[1].ctx) /\ ~ClientSupplied(bctx[2].ctx)
        /\ SameRows(bctx[1].ctx.rows, bctx[2].ctx.rows)
        /\ Canonicalizable(bctx[1].ctx.rows)) =>
         /\ SameBucket
         /\ \A i \in Slots : bctx[i].decision.seed_source = "payload_hash"

C18_Witness ==
  /\ BothCalled
  /\ \A i \in Slots : ~bctx[i].ctx.client_provided_request_id
  /\ bctx[1].ctx.request_id = Some(Text("9f1c"))
  /\ bctx[2].ctx.request_id = Some(Text("abc-123"))
  /\ bctx[1].ctx.rows # bctx[2].ctx.rows
  /\ SameRows(bctx[1].ctx.rows, bctx[2].ctx.rows)
  /\ SameBucket
  /\ \A i \in Slots : bctx[i].decision.seed_source = "payload_hash"

\* the caller sent an X-Request-Id header that is not blank
HeaderSupplied == http.header # Nothing /\ ~IsBlank(http.header[1])

Generated == {Some(u) : u \in Uuids}

Canary == http.mode = MODE_CANARY

\* C19 as stated: a request-id header supplied by the caller is echoed back
\* unchanged in the response and is the canary bucketing seed; when the header is
\* absent or blank a request id is generated and returned, and the generated id is
\* not the bucketing seed (the seed source is payload_hash or random).
C19_Original ==
  http.stage = "responded" =>
    /\ HeaderSupplied =>
         /\ http.response_header = http.header
         /\ Canary => /\ http.bucket_seed_source = "request_id"
                      /\ http.seed = Utf8(http.header[1])
    /\ ~HeaderSupplied =>
         /\ http.response_header \in Generated
         /\ Canary => /\ http.bucket_seed_source \in {"payload_hash", "random"}
                      /\ http.seed # Utf8(http.response_header[1])

\* C19: a request-id header supplied by the caller is echoed back in the response
\* stripped of surrounding whitespace, and the stripped value is the canary
\* bucketing seed (seed source request_id); when the header is absent or blank a
\* request id is generated and returned, and the generated id is not the bucketing
\* seed (the seed source is payload_hash or random).
C19_RequestIdEcho ==
  http.stage = "responded" =>
    /\ HeaderSupplied =>
         /\ http.response_header = Some(Strip(http.header[1]))
         /\ Canary => /\ http.bucket_seed_source = "request_id"
                      /\ http.seed = Utf8(Strip(http.header[1]))
    /\ ~HeaderSupplied =>
         /\ http.response_header \in Generated
         /\ Canary => /\ http.bucket_seed_source \in {"payload_hash", "random"}
                      /\ http.seed # Utf8(http.response_header[1])

C19_Witness ==
  /\ http.stage = "responded"
  /\ http.header = Some(<<SP, "abc-123", SP>>)
  /\ http.response_header = Some(Text("abc-123"))
  /\ Canary
  /\ http.bucket_seed_source = "request_id"
  /\ http.status_code = 200

\* C20: in shadow and canary mode, when the inference of the primary model succeeds
\* and the inference of the shadow model raises, /predict answers 200 with the
\* predictions of the primary model, and the shadow failure is only logged.
C20_ShadowBestEffort ==
  (/\ http.stage \in {"answered", "responded"}
   /\ http.mode \in {MODE_SHADOW, MODE_CANARY}
   /\ http.y_primary = "ok"
   /\ http.y_shadow \in {"RuntimeError", "Exception"}) =>
    /\ http.status_code = 200
    /\ http.proba = http.chosen
    /\ http.warned

C20_Witness ==
  /\ http.stage = "responded"
  /\ http.mode = MODE_CANARY
  /\ http.chosen = "candidate"
  /\ http.y_primary = "ok"
  /\ http.y_shadow = "RuntimeError"
  /\ http.status_code = 200
  /\ http.proba = "candidate"

\* no promotion or rollback is under way, and at least one repointed prod
Settled == prodlog # <<>> /\ \A p \in Procs : pc[p] \in {"idle", "done"}

\* C29 as stated: the champion alias tracks current production: after any sequence
\* of completed promotions and rollbacks in which prod resolves, champion and prod
\* resolve to the same version.
C29_Original ==
  (Settled /\ aliases[ALIAS_PROD] # None) => aliases[ALIAS_CHAMPION] = aliases[ALIAS_PROD]

\* what holds instead: champion names the version of the last completed promotion,
\* and rollback_prod leaves it there
ChampionTracksPromotions ==
  (Settled /\ \E k \in 1..Len(prodlog) : prodlog[k].by = "apply") =>
    LET last == CHOOSE k \in 1..Len(prodlog) :
                  /\ prodlog[k].by = "apply"
                  /\ \A j \in (k + 1)..Len(prodlog) : prodlog[j].by # "apply"
    IN  aliases[ALIAS_CHAMPION] = prodlog[last].version

\* the request on the thread has been answered or has raised
Over(t, op) == th[t].op = op /\ th[t].pc = "done"

\* the last _load_model call of the request was for `alias` and raised
LoadFailed(t, alias) ==
  /\ th[t].raised \in {"RuntimeError", "Exception"}
  /\ th[t].tried # <<>>
  /\ th[t].tried[Len(th[t].tried)] = alias
  /\ cache[HandleField(alias)] = Nothing

\* the predictions are those of a prod handle
ProdPredictions(t) == th[t].proba # Nothing /\ th[t].proba[1].alias = ALIAS_PROD

\* C21 as stated: the candidate load is a best-effort path: in shadow mode (and in
\* canary mode when prod is chosen), if the prod model is available and loading the
\* candidate model handle fails, /predict still returns 200 with the prod model's
\* predictions.
C21_Original ==
  \A t \in Threads :
    (/\ Over(t, "predict")
     /\ th[t].chosen = ALIAS_PROD /\ th[t].run_shadow
     /\ cache.model_prod # Nothing
     /\ LoadFailed(t, ALIAS_CANDIDATE)) =>
      th[t].status_code = 200 /\ ProdPredictions(t)

\* what holds instead: a candidate load that fails ends the request with the status
\* of the error, and no predictions
CandidateLoadFailureSurfaces ==
  \A t \in Threads :
    (Over(t, "predict") /\ LoadFailed(t, ALIAS_CANDIDATE)) =>
      /\ th[t].status_code = ErrorStatus(th[t].raised)
      /\ th[t].proba = Nothing

\* the request raised the error of _get_model(alias, required=True), line 237
ModelUnavailable(t) == th[t].raised = "RuntimeError" /\ th[t].detail = NOT_AVAILABLE

\* C22 as stated: on /predict, get(alias, required=true) with an absent handle
\* fails with ModelUnavailable and the request answers HTTP 503; every other
\* unexpected failure while serving the request answers HTTP 500; no failure of the
\* primary path answers 200.
C22_Original ==
  \A t \in Threads :
    (Over(t, "predict") /\ th[t].raised # None) =>
      /\ th[t].status_code = IF ModelUnavailable(t) THEN 503 ELSE 500
      /\ th[t].status_code # 200

\* what holds instead: the status follows the type of the error, 503 for every
\* RuntimeError wherever it was raised and 500 for the others; the error of
\* _get_model answers 503 and no failure answers 200
StatusFollowsErrorType ==
  \A t \in Threads :
    (Over(t, "predict") /\ th[t].raised # None) =>
      /\ th[t].status_code = (IF th[t].raised \in {"RuntimeError", "HTTPException"}
                              THEN 503 ELSE 500)
      /\ ModelUnavailable(t) => th[t].status_code = 503
      /\ th[t].proba = Nothing

\* a request whose primary inference raised RuntimeError on a loaded handle
InferenceRuntimeError ==
  \E t \in Threads :
    /\ Over(t, "predict")
    /\ th[t].model_primary # Nothing
    /\ th[t].raised = "RuntimeError"
    /\ th[t].status_code = 503

\* the thread is at the TTL gate of a refresh that is not forced, inside the window
InsideWindow(t) ==
  /\ th[t].pc = "gate"
  /\ ~th[t].force
  /\ (clock - cache.last_refresh_ts) < ModelCacheTtl

\* the thread takes a step
Steps(t) == th'[t] # th[t]

\* the number of _load_model calls for the alias in the request of the thread
RECURSIVE Count(_, _)
Count(alias, tried) ==
  IF tried = <<>> THEN 0
  ELSE (IF Head(tried) = alias THEN 1 ELSE 0) + Count(alias, Tail(tried))

\* _get_model(prod, required=True) ended, and no prod load was attempted before it
FirstGet(t) ==
  /\ Over(t, "get")
  /\ th[t].alias = ALIAS_PROD /\ th[t].required
  /\ loads[ALIAS_PROD].attempts = Count(ALIAS_PROD, th[t].tried)

\* C23: a refresh that is not forced and is called while now - last_refresh < ttl
\* returns at once: it calls _load_model for no alias and changes no cache field.
\* A get(prod, required=true) before any load calls _load_model exactly once, for
\* prod; a get inside the TTL window, hence a second get after a first one that
\* loaded, calls it not at all.
C23_GateNoOp ==
  /\ [][\A t \in Threads :
          (InsideWindow(t) /\ Steps(t)) =>
            /\ cache' = cache
            /\ loads' = loads
            /\ th'[t].tried = th[t].tried
            /\ th'[t].pc = th[t].ret]_vars
  /\ [](\A t \in Threads :
          /\ FirstGet(t) => th[t].tried = <<ALIAS_PROD>>
          /\ (Over(t, "get") /\ th[t].now - cache.last_refresh_ts \in 1..(ModelCacheTtl - 1)) =>
               th[t].tried = <<>>)

\* the second get(prod, required=true), one tick after the first loaded the prod
\* model: it returned the cached handle and no second load was attempted
C23_Witness ==
  \E t \in Threads :
    /\ Over(t, "get")
    /\ th[t].alias = ALIAS_PROD /\ th[t].required
    /\ th[t].budget = MaxRequests - 2
    /\ th[t].tried = <<>>
    /\ th[t].model # Nothing
    /\ loads[ALIAS_PROD].attempts = 1
    /\ th[t].now = cache.last_refresh_ts + 1

CachedAliases == {ALIAS_PROD, ALIAS_CANDIDATE}

\* C24: once a model handle is cached for an alias, no step of a later refresh,
\* TTL-expired or forced, calls _load_model for that alias or replaces or clears the
\* cached handle, also after the registry alias has been repointed.
C24_LoadedOnce ==
  [][\A alias \in CachedAliases :
       cache[HandleField(alias)] # Nothing =>
         /\ cache'[HandleField(alias)] = cache[HandleField(alias)]
         /\ loads'[alias] = loads[alias]]_vars

\* a forced refresh ran to its end after prod was repointed in the registry: the
\* handle of the first load, of the version prod named then, is still cached
C24_Witness ==
  \E t \in Threads :
    /\ Over(t, "refresh")
    /\ th[t].force
    /\ th[t].raised = None
    /\ cache.last_refresh_ts = th[t].now
    /\ cache.model_prod = Some(Handle(ALIAS_PROD, "1", 1))
    /\ aliases[ALIAS_PROD] = "2"
    /\ loads[ALIAS_PROD].attempts = 1
    /\ th[t].tried = <<>>

\* the call of _refresh_models_if_needed the thread is in was made with
\* load_candidate=True by a caller that needs the candidate: /predict outside mode
\* prod, _get_model for the candidate alias, or a direct call
NeedCandidate(t) ==
  /\ th[t].load_candidate
  /\ \/ th[t].op = "predict" /\ th[t].mode \in {MODE_CANDIDATE, MODE_SHADOW, MODE_CANARY}
     \/ th[t].op \in {"refresh", "get"}

\* C25: the candidate model is loaded lazily.  _load_model is called for the
\* candidate alias only by a step of a refresh called with load_candidate=True
\* while no candidate handle is cached; no /health or /readyz request and no
\* /predict request in mode prod is ever in such a refresh, so none of them
\* attempts a candidate load.
C25_LazyCandidate ==
  /\ [][loads'[ALIAS_CANDIDATE] # loads[ALIAS_CANDIDATE] =>
          /\ cache.model_candidate = Nothing
          /\ \E t \in Threads : Steps(t) /\ NeedCandidate(t)]_vars
  /\ [](\A t \in Threads :
          (\/ th[t].op \in {"health", "readyz", "livez"}
           \/ th[t].op = "predict" /\ th[t].mode = MODE_PROD) =>
            /\ ~th[t].load_candidate
            /\ Count(ALIAS_CANDIDATE, th[t].tried) = 0)

\* a /predict in mode shadow made the first candidate load attempt of the process,
\* after an earlier request had loaded prod alone
C25_Witness ==
  \E t \in Threads :
    /\ Over(t, "predict")
    /\ th[t].mode = MODE_SHADOW
    /\ th[t].budget = MaxRequests - 2
    /\ th[t].tried = <<ALIAS_CANDIDATE>>
    /\ loads[ALIAS_CANDIDATE].attempts = 1
    /\ cache.model_prod = Some(Handle(ALIAS_PROD, "1", 1))
    /\ cache.model_candidate # Nothing
    /\ th[t].status_code = 200

\* a direct call of _refresh_models_if_needed ended after it passed the TTL gate
PassedGate(t) == Over(t, "refresh") /\ th[t].passed

\* C26 as stated: every refresh that passes the TTL gate (forced, or
\* now - last_refresh >= ttl) sets last_refresh to now whether or not any load
\* occurred or succeeded, so after a refresh whose load failed the next non-forced
\* refresh inside the TTL window attempts no load (no refresh storm).
C26_Original ==
  \A t \in Threads : PassedGate(t) => cache.last_refresh_ts = th[t].now

\* what holds instead: a refresh that passed the gate and returned set
\* last_refresh to its now
StampedOnReturn ==
  \A t \in Threads :
    (PassedGate(t) /\ th[t].raised = None) => cache.last_refresh_ts = th[t].now

\* two refreshes that are not forced, at the same instant, each attempted the prod
\* load, and last_refresh is still the value of process start
RefreshStorm ==
  \E t \in Threads :
    /\ Over(t, "refresh") /\ ~th[t].force
    /\ th[t].budget = MaxRequests - 2
    /\ th[t].tried = <<ALIAS_PROD>>
    /\ loads[ALIAS_PROD].attempts = 2
    /\ clock = ModelCacheTtl
    /\ cache.last_refresh_ts = 0

\* /health answered after its refresh passed the TTL gate with the prod handle
\* cached, reported a prod version, and prod was not repointed while it ran
HealthRefreshed(t) ==
  /\ Over(t, "health")
  /\ th[t].passed /\ th[t].raised = None
  /\ th[t].prod_model_loaded
  /\ th[t].prod_version # None
  /\ aliases[ALIAS_PROD] = th[t].registry_prod

\* C27 as stated: a refresh that passes the TTL gate re-reads from the registry the
\* version identifier of every alias whose handle is loaded, so once the registry's
\* prod alias has been repointed and the TTL has expired, the cached prod_version
\* reported by the service equals the registry's current prod version.
C27_Original ==
  \A t \in Threads : HealthRefreshed(t) => th[t].prod_version = aliases[ALIAS_PROD]

\* what holds instead: a cached version identifier, once read, is never changed
VersionReadOnce ==
  [][/\ cache.prod_version # None => cache'.prod_version = cache.prod_version
     /\ cache.candidate_version # None =>
          cache'.candidate_version = cache.candidate_version]_vars

\* the request on the thread left the cache alone: it called _load_model for no
\* alias and no refresh of it passed the TTL gate
NoCacheEffect(t) == th[t].tried = <<>> /\ ~th[t].passed

\* C28 as stated: GET /livez and GET /readyz have no effect on the model cache:
\* neither attempts a model load nor changes a handle, a cached version or
\* last_refresh; among the health endpoints only GET /health triggers a cache
\* refresh.
C28_Original ==
  \A t \in Threads : th[t].op \in {"livez", "readyz"} => NoCacheEffect(t)

\* what holds instead: /livez, and /readyz when its registry check fails, leave the
\* cache alone
LivezNoCacheEffect ==
  /\ [][\A t \in Threads :
          (Steps(t) /\ (\/ th'[t].op = "livez"
                        \/ th'[t].op = "readyz" /\ ~th'[t].reg_ok)) =>
            cache' = cache /\ loads' = loads]_vars
  /\ [](\A t \in Threads :
          (th[t].op = "livez" \/ (th[t].op = "readyz" /\ ~th[t].reg_ok)) => NoCacheEffect(t))

\* GET /readyz answered 200 after it loaded the prod model itself
ReadyzLoaded ==
  \E t \in Threads :
    /\ Over(t, "readyz")
    /\ th[t].status_code = 200
    /\ th[t].tried = <<ALIAS_PROD>>
    /\ cache.model_prod # Nothing
    /\ cache.last_refresh_ts = th[t].now

\* the handle is the result of a successful _load_model call for the alias
LoadedFor(alias, model) == model[1] \in loads[alias].handles /\ model[1].alias = alias

\* C30: under any interleaving of concurrent refresh and get calls on the shared
\* cache, a handle global that became non-empty never becomes empty again; each
\* write of a handle global stores the result of a successful load made in that
\* step for the alias of the global (the last writer wins); each non-empty handle
\* global holds the result of a successful load of its own alias; and a get that
\* returns a handle returns such a result.
C30_RacingRefreshes ==
  /\ [][\A alias \in CachedAliases :
          LET field == HandleField(alias)
          IN  /\ cache[field] # Nothing => cache'[field] # Nothing
              /\ cache'[field] # cache[field] =>
                   /\ cache'[field] # Nothing
                   /\ cache'[field][1] \in loads'[alias].handles \ loads[alias].handles]_vars
  /\ [](\A alias \in CachedAliases :
          cache[HandleField(alias)] # Nothing => LoadedFor(alias, cache[HandleField(alias)]))
  /\ [](\A t \in Threads :
          (Over(t, "get") /\ th[t].model # Nothing) => LoadedFor(th[t].alias, th[t].model))

\* the prod model was loaded twice by racing calls: a get returned the handle of
\* the first load, and the second load has replaced it in the cache
C30_Witness ==
  /\ loads[ALIAS_PROD].attempts = 2
  /\ Cardinality(loads[ALIAS_PROD].handles) = 2
  /\ cache.model_prod = Some(Handle(ALIAS_PROD, "1", 2))
  /\ \E t \in Threads :
       /\ Over(t, "get")
       /\ th[t].model = Some(Handle(ALIAS_PROD, "1", 1))

\* the routing decision of the request, lines 331-353: the bucket counts in mode
\* canary only
Routed(t) ==
  decide_routing(th[t].mode, DEFAULT_CANARY_PCT,
                 IF th[t].mode = MODE_CANARY THEN th[t].bucket ELSE 0)

\* C31: the predictions /predict returns are produced by a handle loaded for the
\* alias in the response's chosen field, which is the chosen alias of the routing
\* decision; they are the output of the primary model and never that of the shadow
\* model, and predictions of the candidate are returned only in mode candidate or
\* in mode canary with bucket < canary_pct.  A request that fails returns none.
C31_ChosenPredicts ==
  \A t \in Threads :
    Over(t, "predict") =>
      IF th[t].status_code = 200
      THEN /\ th[t].proba # Nothing
           /\ th[t].proba = th[t].model_primary
           /\ th[t].proba[1].alias = th[t].chosen
           /\ th[t].chosen = Routed(t).chosen
           /\ (th[t].run_shadow /\ th[t].model # Nothing) =>
                /\ th[t].model[1].alias = ShadowAlias(th[t].chosen)
                /\ th[t].proba # th[t].model
           /\ th[t].proba[1].alias = ALIAS_CANDIDATE =>
                \/ th[t].mode = MODE_CANDIDATE
                \/ th[t].mode = MODE_CANARY /\ th[t].bucket < DEFAULT_CANARY_PCT
      ELSE th[t].proba = Nothing

\* a canary request in a bucket at or above canary_pct: prod answered, the
\* candidate ran as the shadow and its output was not returned
C31_Witness ==
  \E t \in Threads :
    /\ Over(t, "predict")
    /\ th[t].mode = MODE_CANARY
    /\ th[t].bucket >= DEFAULT_CANARY_PCT
    /\ th[t].status_code = 200
    /\ th[t].y_shadow = "ok"
    /\ th[t].model # Nothing /\ th[t].model[1].alias = ALIAS_CANDIDATE
    /\ th[t].proba # Nothing /\ th[t].proba[1].alias = ALIAS_PROD

\* the invocation of p repeats its previous one: promote without --dry-run, given
\* the arguments of a promote that returned from apply_promotion just before
Repeated(p) ==
  /\ args[p].entry = "promote"
  /\ ~args[p].dry_run
  /\ hist[p].entry = "promote"
  /\ hist[p].outcome = "returned"
  /\ hist[p].args = args[p]

HasCode(violations, code) == \E i \in 1..Len(violations) : violations[i].code = code

BothDone == \A p \in Procs : pc[p] = "done" /\ args[p].entry = "promote"

\* the version that was prod before the two runs: the one that carries the tags of
\* its own promotion (no run of the race promotes it), None when there is none
PriorProd ==
  IF \E v \in Versions : v # aliases[ALIAS_CANDIDATE] /\ TAG_PROMOTED_FROM_ALIAS \in DOMAIN tags[v]
  THEN CHOOSE v \in Versions :
         v # aliases[ALIAS_CANDIDATE] /\ TAG_PROMOTED_FROM_ALIAS \in DOMAIN tags[v]
  ELSE None

\* C33 as stated: when two promote runs for the same candidate interleave in any
\* order, in every final state the prod version's previous_prod_version tag names
\* the version that was prod before both runs (it is absent when there was none),
\* never the promoted version itself, and its release_status is prod.
C33_Original ==
  (BothDone /\ aliases[ALIAS_PROD] # None) =>
    LET v == aliases[ALIAS_PROD]
    IN  /\ ~HasTag(v, TAG_PREVIOUS_PROD_VERSION, Text(v))
        /\ IF PriorProd = None
           THEN TAG_PREVIOUS_PROD_VERSION \notin DOMAIN tags[v]
           ELSE HasTag(v, TAG_PREVIOUS_PROD_VERSION, Text(PriorProd))
        /\ HasTag(v, TAG_RELEASE_STATUS, Text(ALIAS_PROD))

\* what does hold in the race: a run that read the prod alias before either run
\* repointed it records the prior version; a run that read it afterwards records
\* the promoted version itself and marks it previous_prod
RaceReadsDecide ==
  BothDone =>
    \A p \in Procs :
      ApplyReturned(p) =>
        /\ loc[p].prev_prod_version \in {PriorProd, loc[p].apply_version}
        /\ aliases[ALIAS_PROD] = loc[p].apply_version
        /\ (\A q \in Procs : ApplyReturned(q) /\ loc[q].prev_prod_version = PriorProd) =>
              C33_Original

\* a final state in which the promoted version names itself as previous prod
SelfPrevious ==
  /\ BothDone
  /\ \A p \in Procs : ApplyReturned(p)
  /\ HasTag(aliases[ALIAS_PROD], TAG_PREVIOUS_PROD_VERSION, Text(aliases[ALIAS_PROD]))
  /\ HasTag(aliases[ALIAS_PROD], TAG_RELEASE_STATUS, Text(RELEASE_STATUS_PREVIOUS_PROD))

\* the request on the thread needs the candidate handle: _get_model(candidate,
\* required=True), called directly or from /predict with candidate chosen
WantsCandidate(t) ==
  \/ th[t].op = "get" /\ th[t].alias = ALIAS_CANDIDATE /\ th[t].required
  \/ th[t].op = "predict" /\ th[t].chosen = ALIAS_CANDIDATE

\* the request ended with the candidate handle read and handed on
ServedByCandidate(t) ==
  /\ th[t].raised = None
  /\ IF th[t].op = "predict"
     THEN th[t].model_primary # Nothing /\ th[t].model_primary[1].alias = ALIAS_CANDIDATE
     ELSE th[t].model # Nothing /\ th[t].model[1].alias = ALIAS_CANDIDATE

\* C34 as stated: a request that needs the candidate model while the registry
\* resolves the candidate alias is never turned away for want of the handle: it
\* is served by a candidate handle, or it called _load_model for the candidate
\* and that call raised; this also inside the TTL window of a refresh that loaded
\* prod alone.
C34_Original ==
  \A t \in Threads :
    (WantsCandidate(t) /\ th[t].pc = "done" /\ aliases[ALIAS_CANDIDATE] # None) =>
      /\ ~ModelUnavailable(t)
      /\ \/ ServedByCandidate(t)
         \/ LoadFailed(t, ALIAS_CANDIDATE)
         \/ LoadFailed(t, ALIAS_PROD)
         \/ th[t].raised # None /\ th[t].model_primary # Nothing

\* what holds instead: the request is turned away with the error of line 237
\* exactly when no refresh of it passed the TTL gate, so that no load was attempted
\* while no candidate handle was cached; a refresh that passes the gate attempts
\* the load
LazyLoadBehindGate ==
  \A t \in Threads :
    (WantsCandidate(t) /\ th[t].pc = "done") =>
      /\ ModelUnavailable(t) =>
            /\ th[t].tried = <<>>
            /\ ~th[t].passed
            /\ cache.model_candidate = Nothing
            /\ th[t].now - cache.last_refresh_ts < ModelCacheTtl
      /\ (th[t].passed /\ th[t].tried = <<>> /\ th[t].raised = None) => ServedByCandidate(t)

\* a /predict in mode candidate, right after a request that loaded prod alone, is
\* answered 503 although the registry resolves the candidate alias and no load of
\* it was attempted
CandidateShutOut ==
  \E t \in Threads :
    /\ Over(t, "predict")
    /\ th[t].mode = MODE_CANDIDATE
    /\ aliases[ALIAS_CANDIDATE] # None
    /\ cache.model_prod # Nothing
    /\ loads[ALIAS_CANDIDATE].attempts = 0
    /\ ModelUnavailable(t)
    /\ th[t].status_code = 503

\* the promote run of p was allowed, was not a dry run and returned from
\* apply_promotion with every registry call succeeding
Promoted(p) ==
  /\ args[p].entry = "promote"
  /\ ~args[p].dry_run
  /\ decision[p].made /\ decision[p].allowed
  /\ ApplyReturned(p)
  /\ AllCallsOk(p)

\* the aliases the run of p repointed
Repointed(p) ==
  {calls[p][i].call.alias : i \in {j \in 1..Len(calls[p]) :
                                calls[p][j].call.op = "set_registered_model_alias"}}

\* C35 as stated: the alias an allowed promote without --dry-run repoints to the
\* candidate version is the alias given as --to-alias, the one whose version the
\* policy compared with the candidate for NOOP_PROMOTION, for every --to-alias;
\* beside it only champion, the mirror of production, is repointed.
C35_Original ==
  \A p \in Procs :
    Promoted(p) =>
      /\ args[p].to_alias \in Repointed(p)
      /\ Repointed(p) \subseteq {args[p].to_alias, ALIAS_CHAMPION}
      /\ decision[p].context.current_prod_version = loc[p].prev_prod_version

\* what holds instead: the run repoints prod and champion whatever --to-alias
\* names, and records as previous version what prod resolved to, not what
\* --to-alias resolved to
ToAliasIgnored ==
  \A p \in Procs :
    Promoted(p) =>
      /\ Repointed(p) = {ALIAS_PROD, ALIAS_CHAMPION}
      /\ \A i \in 1..Len(calls[p]) :
           calls[p][i].call.op = "set_registered_model_alias" =>
             calls[p][i].call.version = decision[p].context.candidate_version

\* promote --to-alias champion repointed prod, and the version it promoted was the
\* one prod resolved to already
ProdRepointedForChampion ==
  \E p \in Procs :
    /\ Promoted(p)
    /\ args[p].to_alias = ALIAS_CHAMPION
    /\ ALIAS_PROD \in Repointed(p)
    /\ loc[p].prev_prod_version = loc[p].apply_version

\* the versions that carry release_status=prod
MarkedProd == {v \in DOMAIN tags : HasTag(v, TAG_RELEASE_STATUS, Text(ALIAS_PROD))}

\* C36 as stated: after any sequence of completed promotions and rollbacks, the
\* version the prod alias resolves to carries release_status=prod and no other
\* version carries release_status=prod.
C36_Original ==
  (Settled /\ aliases[ALIAS_PROD] # None) => MarkedProd = {aliases[ALIAS_PROD]}

\* the last invocation was a promotion of a version other than the one prod
\* resolved to, and it returned
LastWasPromotion ==
  /\ Settled
  /\ \E p \in Procs :
       /\ args[p].entry = "apply" /\ ApplyReturned(p)
       /\ loc[p].prev_prod_version # loc[p].apply_version
       /\ \A q \in Procs \ {p} : args[q].entry = "none"

\* what holds instead: right after such a promotion the prod version carries
\* release_status=prod; no step of rollback_prod writes a release_status, so the
\* marks stay where the promotions left them
MarkedByPromotion ==
  /\ [][\A p \in Procs :
          (args[p].entry = "rollback" /\ pc'[p] # pc[p]) =>
            [v \in DOMAIN tags |-> Get(tags'[v], TAG_RELEASE_STATUS, EmptyStr)]
              = [v \in DOMAIN tags |-> Get(tags[v], TAG_RELEASE_STATUS, EmptyStr)]]_vars
  /\ [](LastWasPromotion => aliases[ALIAS_PROD] \in MarkedProd)

\* after two promotions and a rollback the prod version is marked previous_prod
\* and the version rolled back from is still marked prod
StaleStatusAfterRollback ==
  /\ Settled
  /\ Len(prodlog) = 3
  /\ prodlog[2].by = "apply" /\ prodlog[3].by = "rollback"
  /\ prodlog[1].version # prodlog[2].version
  /\ aliases[ALIAS_PROD] = prodlog[1].version
  /\ HasTag(aliases[ALIAS_PROD], TAG_RELEASE_STATUS, Text(RELEASE_STATUS_PREVIOUS_PROD))
  /\ MarkedProd = {prodlog[2].version}

\* a promotion after a rollback leaves two versions marked prod
TwoMarkedProd ==
  /\ LastWasPromotion
  /\ Cardinality(MarkedProd) = 2

====
